---------------------------- MODULE Spec2Model ----------------------------
(***************************************************************************)
(* A model of the orcid library (package orcid) and of the orcid-pull      *)
(* command (package main): the two-stage registry fetch with its batched   *)
(* fan-out, title normalisation and de-duplication, the convenience-field  *)
(* modifiers, grouping by type and year, and the command's pipeline.       *)
(*                                                                         *)
(* Go strings are sequences of one-character strings, so that the string   *)
(* functions (ToLower, ReplaceAll, Join, url.Parse/String) are computed    *)
(* and not assumed.  Work types and citation kinds, which the code only    *)
(* compares for equality, are TLA+ strings.                                *)
(***************************************************************************)
EXTENDS Integers, Sequences, FiniteSets, Bags, TLC

(***************************************************************************)
(* Bounds of the model.                                                    *)
(***************************************************************************)
\* longest string drawn for simplifyString
MaxStrLen == 3
\* longest list of works drawn for filterUniqueTitles and groupByTypeAndYear
MaxWorks == 3
\* publication years are drawn from 0..MaxYear
MaxYear == 2
\* most external IDs of a work drawn for UpdateExternalIDsURL
MaxExternalIDs == 2

\* most summaries of a registry response whose works all differ
MaxShort == 3
\* the long registry responses have BatchSize + 1 .. BatchSize + MaxExtra summaries
MaxExtra == 2

\* fetchWorks starts the detail fetches in slices of 20 summaries
BatchSize == 20

VARIABLES
    \* a function of the library applied to an argument
    pc,         \* its position: "start", "done", "fatal" ("idle": not under study)
    arg,        \* the argument it is applied to
    ret,        \* what it returned (or left in the argument it mutates)
    \* fetchWorks
    raw,        \* the works of the registry's summary response, as listed
    summaries,  \* *summaries: what fetchWorkSummaries returned
    fpc,        \* position of fetchWorks
    ferr,       \* the error fetchWorks returns ("nil": none)
    batch,      \* n, the batch counter of the outer loop
    spawned,    \* how many summaries the inner loops have ranged over
    wg,         \* the counter of the sync.WaitGroup
    inflight,   \* the bag of running goroutines
    worksCh,    \* the contents of the buffered channel
    closed,     \* whether worksCh is closed
    result,     \* works, the slice fetchWorks returns
    fetched,    \* history: the bag of works fetchWork has returned without error
    \* the orcid-pull command
    mpc,        \* position of main
    phase,      \* "users": the profile pages, "PI": the page of publications by year
    registry,   \* for each page title, the works the registry lists for its ORCID
    files,      \* for each page title, the snapshot file <ORCID>.xml
    users,      \* the slice of *User main works on
    ui,         \* the index of the user loops
    wi,         \* the index of the loop over the works of all users
    handed,     \* history: the last list of works given to groupByTypeAndYear
    handedBy,   \* history: "none", or the function that gave it
    grouped,    \* what groupByTypeAndYear made of it for the template
    calls,      \* history: the downloads, CrossRef lookups and citation parses
                \* main has issued, in order
    \* exploreUsers
    epc,        \* position of exploreUsers
    userTitles, \* the page titles of the category
    ei,         \* the index of the loop over the titles
    sem,        \* the number of values in the channel sem
    filled,     \* i of the loop that fills sem
    exploring,  \* the discovery goroutines that have not returned, as a bag
    discovered, \* users: the titles of the users appended, in order
    linked      \* history: the bag of titles on whose page a goroutine found a
                \* link with orcid.org and made a registry of it

pureVars == <<pc, arg, ret>>
fetchVars == <<raw, summaries, fpc, ferr, batch, spawned, wg, inflight, worksCh, closed,
               result, fetched>>
mainVars == <<mpc, phase, registry, files, users, ui, wi, handed, handedBy, grouped,
              calls>>
exploreVars == <<epc, userTitles, ei, sem, filled, exploring, discovered, linked>>
vars == <<pureVars, fetchVars, mainVars, exploreVars>>

\* what the steps of one part of the program leave alone
NotPure == <<fetchVars, mainVars, exploreVars>>
NotFetch == <<pureVars, mainVars, exploreVars>>
NotMain == <<pureVars, fetchVars, exploreVars>>
NotExplore == <<pureVars, fetchVars, mainVars>>

PureIdle == pc = "idle" /\ arg = <<>> /\ ret = <<>>

FetchIdle ==
    /\ raw = <<>> /\ summaries = <<>> /\ fpc = "idle" /\ ferr = "nil"
    /\ batch = 0 /\ spawned = 0 /\ wg = 0 /\ inflight = EmptyBag /\ worksCh = <<>>
    /\ closed = FALSE /\ result = <<>> /\ fetched = EmptyBag

MainIdle ==
    /\ mpc = "idle" /\ phase = "users" /\ registry = <<>> /\ files = <<>>
    /\ users = <<>> /\ ui = 0 /\ wi = 0 /\ handed = <<>> /\ handedBy = "none"
    /\ grouped = <<>> /\ calls = <<>>

ExploreIdle ==
    /\ epc = "idle" /\ userTitles = <<>> /\ ei = 0 /\ sem = 0 /\ filled = 0
    /\ exploring = EmptyBag /\ discovered = <<>> /\ linked = EmptyBag

(***************************************************************************)
(* Strings.                                                                *)
(***************************************************************************)
\* strings.ToLower on one character of the alphabet the model draws
LowerChar(c) ==
    CASE c = "A" -> "a"
      [] c = "B" -> "b"
      [] OTHER -> c

\* strings.ToLower
ToLower(s) == [k \in 1..Len(s) |-> LowerChar(s[k])]

\* strings.Replace(s, old, new, 1): only the first occurrence (a slip for ReplaceAll)
RECURSIVE ReplaceFirst(_, _, _)
ReplaceFirst(s, old, new) ==
    IF Len(s) < Len(old) THEN s
    ELSE IF SubSeq(s, 1, Len(old)) = old
         THEN new \o SubSeq(s, Len(old) + 1, Len(s))
         ELSE <<Head(s)>> \o ReplaceFirst(Tail(s), old, new)

\* strings.ReplaceAll(s, old, new) for a non-empty old: the non-overlapping
\* occurrences of old, left to right, become new
RECURSIVE ReplaceAll(_, _, _)
ReplaceAll(s, old, new) ==
    IF Len(s) < Len(old) THEN s
    ELSE IF SubSeq(s, 1, Len(old)) = old
         THEN new \o ReplaceAll(SubSeq(s, Len(old) + 1, Len(s)), old, new)
         ELSE <<Head(s)>> \o ReplaceAll(Tail(s), old, new)

\* simplifyString removes some punctuation from a string.
simplifyString(s) ==
    ReplaceAll(
        ReplaceAll(
            ReplaceAll(
                ReplaceAll(
                    ToLower(s),
                    <<" ">>, <<>>),
                <<"(">>, <<>>),
            <<")">>, <<>>),
        <<"-">>, <<>>)

\* the characters titles are drawn from: two letters in both cases, the four
\* characters simplifyString removes, and one it keeps
TitleChars == {"A", "a", "B", " ", "(", ")", "-", "."}

\* all strings over S of length at most n
StringsUpTo(S, n) == UNION {[1..k -> S] : k \in 0..n}

\* a nil pointer
Nil == [nil |-> TRUE]

(***************************************************************************)
(* Works.                                                                  *)
(***************************************************************************)
\* type Work struct: the fields the modelled code reads or writes
NewWork(path, title, type, year) ==
    [Path |-> path, Title |-> title, Type |-> type, Year |-> year,
     ExternalIDs |-> <<>>, Contributors |-> <<>>, Citation |-> Nil,
     DoiURI |-> <<>>, ContributorsLine |-> <<>>]

(***************************************************************************)
(* SpecNormalize: simplifyString applied to every string up to MaxStrLen.  *)
(***************************************************************************)
InitNormalize ==
    /\ FetchIdle
    /\ MainIdle
    /\ ExploreIdle
    /\ pc = "start"
    /\ arg \in StringsUpTo(TitleChars, MaxStrLen)
    /\ ret = <<>>

Normalize ==
    /\ pc = "start"
    /\ ret' = simplifyString(arg)
    /\ pc' = "done"
    /\ UNCHANGED <<arg, NotPure>>

NextNormalize == Normalize

SpecNormalize == InitNormalize /\ [][NextNormalize]_vars

\* C7: title normalisation is idempotent: simplifyString applied to its own
\* result gives that result again.
C7_Idempotent ==
    pc = "done" => simplifyString(ret) = ret

\* a string with an upper-case letter and two removable characters was normalised
C7_Witness ==
    /\ pc = "done"
    /\ arg = <<"A", " ", "-">>
    /\ ret = <<"a">>


(***************************************************************************)
(* De-duplication by normalised title.                                     *)
(***************************************************************************)
\* filterUniqueTitles with the comparison on the raw titles (simplifyString forgotten)
RECURSIVE filterRawFrom(_, _, _)
filterRawFrom(works, k, uniqueWorks) ==
    IF k > Len(works) THEN uniqueWorks
    ELSE LET w == works[k]
             unique == \A j \in 1..Len(uniqueWorks) : w.Title # uniqueWorks[j].Title
         IN  filterRawFrom(works, k + 1,
                           IF unique THEN Append(uniqueWorks, w) ELSE uniqueWorks)

filterUniqueTitlesRaw(works) == filterRawFrom(works, 1, <<>>)

\* the loop of filterUniqueTitles from input position k on, uniqueWorks being
\* the works kept so far
RECURSIVE filterFrom(_, _, _)
filterFrom(works, k, uniqueWorks) ==
    IF k > Len(works) THEN uniqueWorks
    ELSE LET w == works[k]
             unique == \A j \in 1..Len(uniqueWorks) :
                          simplifyString(w.Title) # simplifyString(uniqueWorks[j].Title)
         IN  filterFrom(works, k + 1,
                        IF unique THEN Append(uniqueWorks, w) ELSE uniqueWorks)

\* filterUniqueTitles filters works by a unique title and adds to the
\* returned slice only the first item met.
filterUniqueTitles(works) == filterFrom(works, 1, <<>>)

\* the titles the lists of SpecDedup are drawn from: they normalise to "a",
\* "b", "b." and the empty string
TitlePool ==
    { <<"a">>, <<"A">>, <<"a", "-">>, <<"(", " ", "A", ")">>,
      <<"B">>, <<"b", ".">>, <<>> }

\* the lists of at most n works with titles from titles; a work's Path is its
\* position, so that works with equal titles stay distinguishable
TitledLists(titles, n) ==
    UNION { { [i \in 1..k |-> NewWork(i, t[i], "journal-article", 0)] :
                t \in [1..k -> titles] } : k \in 0..n }

InitDedup ==
    /\ FetchIdle
    /\ MainIdle
    /\ ExploreIdle
    /\ pc = "start"
    /\ arg \in TitledLists(TitlePool, MaxWorks)
    /\ ret = <<>>

Dedup ==
    /\ pc = "start"
    /\ ret' = filterUniqueTitles(arg)
    /\ pc' = "done"
    /\ UNCHANGED <<arg, NotPure>>

NextDedup == Dedup

SpecDedup == InitDedup /\ [][NextDedup]_vars

\* the positions of works whose normalised title no earlier work of the list has
FirstSeen(works) ==
    { i \in 1..Len(works) :
        \A j \in 1..(i - 1) :
            simplifyString(works[j].Title) # simplifyString(works[i].Title) }

\* the subsequence of works at the positions in K
SubseqAt(works, K) ==
    LET kept == SelectSeq([i \in 1..Len(works) |-> i], LAMBDA i : i \in K)
    IN  [n \in 1..Len(kept) |-> works[kept[n]]]

\* C4: filterUniqueTitles returns exactly the subsequence of the input made of
\* each work whose normalised title equals that of no earlier input work, and
\* the normalised titles of the result are pairwise distinct.
C4_FirstSeenWins ==
    pc = "done" =>
        /\ ret = SubseqAt(arg, FirstSeen(arg))
        /\ \A i, j \in 1..Len(ret) :
              i # j => simplifyString(ret[i].Title) # simplifyString(ret[j].Title)

\* a list whose second work repeats the first up to case and punctuation, and
\* whose third work is new: the second was dropped
C4_Witness ==
    /\ pc = "done"
    /\ Len(arg) = 3
    /\ arg[1].Title = <<"a">>
    /\ arg[2].Title = <<"(", " ", "A", ")">>
    /\ arg[3].Title = <<"B">>
    /\ ret = <<arg[1], arg[3]>>

(***************************************************************************)
(* Grouping by type and year.                                              *)
(***************************************************************************)
Categories == {"Journal Articles", "Conference Papers", "Other"}

\* the switch of groupByTypeAndYear without its default case
categoryOfNoDefault(w) ==
    CASE w.Type = "journal-article" -> "Journal Articles"
      [] w.Type = "conference-paper" -> "Conference Papers"
      [] OTHER -> "none"

\* the switch on w.Type in groupByTypeAndYear
categoryOf(w) ==
    CASE w.Type = "journal-article" -> "Journal Articles"
      [] w.Type = "conference-paper" -> "Conference Papers"
      [] OTHER -> "Other"

\* the comparison of getYearsSorted turned round (ascending)
yearsLessAsc(a, b) == a < b

\* the less function getYearsSorted gives to sort.Slice
yearsLess(a, b) == a > b

\* sort.Slice on a slice of distinct keys: insertion of x into a sorted slice
RECURSIVE insertSorted(_, _)
insertSorted(x, s) ==
    IF s = <<>> THEN <<x>>
    ELSE IF yearsLess(x, Head(s)) THEN <<x>> \o s
         ELSE <<Head(s)>> \o insertSorted(x, Tail(s))

\* ranging over the map of years (in some order) and sorting the keys
RECURSIVE sortKeys(_)
sortKeys(S) ==
    IF S = {} THEN <<>>
    ELSE LET x == CHOOSE y \in S : TRUE
         IN  insertSorted(x, sortKeys(S \ {x}))

\* the keys of the map of years as a range over it may give them, unsorted:
\* smallest first
RECURSIVE keysAscending(_)
keysAscending(S) ==
    IF S = {} THEN <<>>
    ELSE LET x == CHOOSE y \in S : \A z \in S : y <= z
         IN  <<x>> \o keysAscending(S \ {x})

\* getYearsSorted without its sort.Slice
getYearsUnsorted(works) == keysAscending({works[i].Year : i \in 1..Len(works)})

\* getYearsSorted: the distinct years of works, sorted with yearsLess
getYearsSorted(works) == sortKeys({works[i].Year : i \in 1..Len(works)})

\* groupByTypeAndYear without the three empty slices it puts into byType
\* before it ranges over the works: only the categories of the works are keys
groupByTypeAndYearKeysOfWorks(works) ==
    LET keys == {categoryOf(works[i]) : i \in 1..Len(works)}
        byType == [t \in keys |->
                      SelectSeq(works, LAMBDA w : categoryOf(w) = t)]
    IN  [k \in keys |->
            LET group == byType[k]
                years == getYearsSorted(group)
            IN  [i \in 1..Len(years) |->
                    SelectSeq(group, LAMBDA w : w.Year = years[i])]]

\* groupByTypeAndYear: the works by category, and in each category by year
groupByTypeAndYear(works) ==
    LET byType == [t \in Categories |->
                      SelectSeq(works, LAMBDA w : categoryOf(w) = t)]
    IN  [k \in Categories |->
            LET group == byType[k]
                years == getYearsSorted(group)
            IN  [i \in 1..Len(years) |->
                    SelectSeq(group, LAMBDA w : w.Year = years[i])]]

\* the work types drawn: the two the code names and one it does not
WorkTypes == {"journal-article", "conference-paper", "book"}

\* the lists of at most n works of every type and year; a work's Path is its
\* position (the works are distinct pointers)
TypedLists(n) ==
    UNION { { [i \in 1..k |-> NewWork(i, <<>>, ty[i], yr[i])] :
                ty \in [1..k -> WorkTypes], yr \in [1..k -> 0..MaxYear] } :
            k \in 0..n }

InitGroup ==
    /\ FetchIdle
    /\ MainIdle
    /\ ExploreIdle
    /\ pc = "start"
    /\ arg \in TypedLists(MaxWorks)
    /\ ret = <<>>

Group ==
    /\ pc = "start"
    /\ ret' = groupByTypeAndYear(arg)
    /\ pc' = "done"
    /\ UNCHANGED <<arg, NotPure>>

NextGroup == Group

SpecGroup == InitGroup /\ [][NextGroup]_vars

\* the places <<category, bucket, position>> of a grouping
Places(g, n) ==
    { <<k, b, p>> \in Categories \X (1..n) \X (1..n) :
        /\ b \in 1..Len(g[k])
        /\ p \in 1..Len(g[k][b]) }

RECURSIVE SumLens(_)
SumLens(s) == IF s = <<>> THEN 0 ELSE Len(Head(s)) + SumLens(Tail(s))

\* C5: grouping drops and duplicates nothing: the bucket sizes of all the
\* categories add up to the length of the input, and every input work is at
\* exactly one place of the result.
C5_GroupingComplete ==
    pc = "done" =>
        /\ SumLens(ret["Journal Articles"]) + SumLens(ret["Conference Papers"])
             + SumLens(ret["Other"]) = Len(arg)
        /\ \A i \in 1..Len(arg) :
              Cardinality({ pl \in Places(ret, Len(arg)) :
                              ret[pl[1]][pl[2]][pl[3]] = arg[i] }) = 1

\* three works of three categories were grouped
C5_Witness ==
    /\ pc = "done"
    /\ Len(arg) = 3
    /\ {arg[i].Type : i \in 1..3} = WorkTypes
    /\ \A k \in Categories : Len(ret[k]) = 1

\* C6: within each category the year buckets are strictly descending by year:
\* every bucket holds works of one year, and an earlier bucket's year is
\* greater than a later bucket's.
C6_YearsDescending ==
    pc = "done" =>
        \A k \in Categories :
            /\ \A b \in 1..Len(ret[k]) :
                  /\ ret[k][b] # <<>>
                  /\ \A p \in 1..Len(ret[k][b]) : ret[k][b][p].Year = ret[k][b][1].Year
            /\ \A b, c \in 1..Len(ret[k]) :
                  b < c => ret[k][b][1].Year > ret[k][c][1].Year

\* a category with three works of two years, given oldest first, has two
\* buckets, the newer year first
C6_Witness ==
    /\ pc = "done"
    /\ Len(arg) = 3
    /\ \A i \in 1..3 : arg[i].Type = "journal-article"
    /\ arg[1].Year = 0 /\ arg[2].Year = 1 /\ arg[3].Year = 0
    /\ ret["Journal Articles"] = << <<arg[2]>>, <<arg[1], arg[3]>> >>

(***************************************************************************)
(* UpdateExternalIDsURL.                                                   *)
(***************************************************************************)
\* unescape: the three HTML entities, in the order of the code
unescape(s) ==
    ReplaceAll(
        ReplaceAll(
            ReplaceAll(s, <<"&", "l", "t", ";">>, <<"<">>),
            <<"&", "g", "t", ";">>, <<">">>),
        <<"&", "a", "m", "p", ";">>, <<"&">>)

\* url.Parse returns an error for a string with an ASCII control character
\* (the tab stands for them); the other strings drawn parse
urlParseFails(s) == \E k \in 1..Len(s) : s[k] = "\t"

\* the position of the first "#" of s, or Len(s) + 1
RECURSIVE firstHash(_, _)
firstHash(s, k) ==
    IF k > Len(s) \/ s[k] = "#" THEN k ELSE firstHash(s, k + 1)

\* the percent-encoding URL.String gives the characters drawn that it does
\* not write as they are
RECURSIVE urlEscape(_)
urlEscape(s) ==
    IF s = <<>> THEN <<>>
    ELSE (CASE Head(s) = "<" -> <<"%", "3", "C">>
            [] Head(s) = ">" -> <<"%", "3", "E">>
            [] Head(s) = "#" -> <<"%", "2", "3">>
            [] OTHER -> <<Head(s)>>) \o urlEscape(Tail(s))

\* url.Parse(s) followed by URL.String(): the string is cut at its first "#"
\* into the part before it and the fragment, both are written back encoded,
\* and the "#" is written only before a non-empty fragment
urlString(s) ==
    LET h == firstHash(s, 1)
        base == SubSeq(s, 1, h - 1)
        frag == SubSeq(s, h + 1, Len(s))
    IN  urlEscape(base) \o (IF frag = <<>> THEN <<>> ELSE <<"#">> \o urlEscape(frag))

DoiPrefix == <<"h", "t", "t", "p", ":", "/", "/", "d", "o", "i", ".", "o", "r", "g", "/">>

\* one iteration of the inner loop of UpdateExternalIDsURL: external ID ii of
\* work w; log.Fatal ends the process
updateExternalID(w, ii) ==
    LET id == w.ExternalIDs[ii]
        afterSwitch(w1, uri) ==
            LET u == unescape(uri)
            IN  IF urlParseFails(u) THEN [fatal |-> TRUE, w |-> w1]
                ELSE [fatal |-> FALSE,
                      w |-> [w1 EXCEPT !.ExternalIDs[ii].URL = urlString(u)]]
    IN  CASE id.Type = "doi" ->
               IF Len(id.URL) = 0 /\ Len(id.Value) = 0
               THEN [fatal |-> FALSE, w |-> w]
               ELSE LET uri == unescape(IF Len(id.URL) > 0 THEN id.URL
                                        ELSE DoiPrefix \o id.Value)
                    IN  IF urlParseFails(uri) THEN [fatal |-> TRUE, w |-> w]
                        ELSE afterSwitch([w EXCEPT !.DoiURI = urlString(uri)],
                                         urlString(uri))
          [] id.Type = "eid" -> afterSwitch(w, <<>>)
          [] OTHER -> [fatal |-> FALSE, w |-> w]

\* the inner loop from external ID ii on
RECURSIVE updateExternalIDsFrom(_, _)
updateExternalIDsFrom(w, ii) ==
    IF ii > Len(w.ExternalIDs) THEN [fatal |-> FALSE, w |-> w]
    ELSE LET r == updateExternalID(w, ii)
         IN  IF r.fatal THEN r ELSE updateExternalIDsFrom(r.w, ii + 1)

\* the outer loop from work i on
RECURSIVE updateWorksFrom(_, _)
updateWorksFrom(works, i) ==
    IF i > Len(works) THEN [fatal |-> FALSE, works |-> works]
    ELSE LET r == updateExternalIDsFrom(works[i], 1)
         IN  IF r.fatal THEN [fatal |-> TRUE, works |-> [works EXCEPT ![i] = r.w]]
             ELSE updateWorksFrom([works EXCEPT ![i] = r.w], i + 1)

\* UpdateExternalIDsURL populates a slice of works with an URI for external
\* ids if its value is missing.
UpdateExternalIDsURL(works) == updateWorksFrom(works, 1)

\* the external IDs drawn: the two kinds the code names and one it does not,
\* without and with a value, and with a URL that is empty, plain, a bare "#",
\* an HTML entity, or unparseable
ExtIDTypes == {"doi", "eid", "isbn"}
ExtIDValues == { <<>>, <<"v">> }
ExtIDURLs == { <<>>, <<"u">>, <<"#">>, <<"&", "l", "t", ";">>, <<"\t">> }
ExtIDs == [Type : ExtIDTypes, Value : ExtIDValues, URL : ExtIDURLs]

\* a freshly decoded work (DoiURI empty) with the external IDs ids
DecodedWork(ids) ==
    [NewWork(1, <<"a">>, "journal-article", 0) EXCEPT !.ExternalIDs = ids]

InitDoi ==
    /\ FetchIdle
    /\ MainIdle
    /\ ExploreIdle
    /\ pc = "start"
    /\ arg \in { <<DecodedWork(ids)>> : ids \in StringsUpTo(ExtIDs, MaxExternalIDs) }
    /\ ret = <<>>

UpdateDoi ==
    /\ pc = "start"
    /\ LET r == UpdateExternalIDsURL(arg)
       IN  /\ ret' = r.works
           /\ pc' = IF r.fatal THEN "fatal" ELSE "done"
    /\ UNCHANGED <<arg, NotPure>>

NextDoi == UpdateDoi

SpecDoi == InitDoi /\ [][NextDoi]_vars

\* the work has an external ID of type doi whose URL or value is non-empty
HasUsableDoi(w) ==
    \E ii \in 1..Len(w.ExternalIDs) :
        /\ w.ExternalIDs[ii].Type = "doi"
        /\ (w.ExternalIDs[ii].URL # <<>> \/ w.ExternalIDs[ii].Value # <<>>)

\* C9: after UpdateExternalIDsURL has run on a freshly decoded work, DoiURI is
\* non-empty if and only if the work has an external ID of type doi whose URL
\* or value is non-empty.
C9_DoiURIIffUsableDoi ==
    pc = "done" =>
        \A i \in 1..Len(arg) : (ret[i].DoiURI # <<>>) <=> HasUsableDoi(arg[i])

(***************************************************************************)
(* fetchWorks: the summary fetch and the batched fan-out of detail fetches.*)
(*                                                                         *)
(* A goroutine of the fan-out reads nothing of its summary but w.Path, so  *)
(* the running goroutines are kept as a bag of records                     *)
(*   [path: the path of its summary, st: "fetch" before fetchWork has      *)
(*    returned and "send" before the channel send,                         *)
(*    batch: history, the slice its summary is in (its index \div 20)].    *)
(***************************************************************************)
\* a string of k letters "a"
Unary(k) == [j \in 1..k |-> "a"]

\* the registry responses with at most MaxShort works.  Work j has the title
\* Unary(j) and the year j % 2; its path is j, or -j for a path url.Parse
\* rejects.  With dup the last work repeats the first one's title in upper case.
ShortResponses ==
    UNION { { [j \in 1..k |->
                  NewWork(bad[j], IF dup /\ j = k /\ k > 1 THEN <<"A">> ELSE Unary(j),
                          "journal-article", j % 2)] :
                bad \in { f \in [1..k -> (0 - k)..k] : \A j \in 1..k : f[j] \in {j, 0 - j} },
                dup \in BOOLEAN } : k \in 0..MaxShort }

\* the registry responses with more works than one batch: BatchSize + 1 to
\* BatchSize + MaxExtra works with different titles that all refer to the
\* detail document at path 1, so that their goroutines are interchangeable
LongResponses ==
    { [j \in 1..k |-> NewWork(1, Unary(j), "journal-article", 0)] :
        k \in (BatchSize + 1)..(BatchSize + MaxExtra) }

\* the paths url.Parse rejects
pathParseFails(path) == path < 0

\* the work the registry serves at a detail path: the one it listed there
fetchWorkDoc(path) == raw[CHOOSE k \in 1..Len(raw) : raw[k].Path = path]

\* what xml.Decode makes of a document without any of the elements of Work
ErrorDocumentWork == NewWork(0, <<>>, "", 0)

\* a channel made without a buffer: make(chan *Work)
chanCapUnbuffered(num) == 0

\* the capacity of worksCh: make(chan *Work, num)
chanCap(num) == num

\* int(math.Ceil(float64(num)/20.0))
numBatches(num) == (num + BatchSize - 1) \div BatchSize

\* start := n * 20
batchStart(nn) == nn * BatchSize

\* the whole rest of the summaries as one slice (no batching)
batchEndAll(nn, num) == num

\* end := (n + 1) * 20, cut to num
batchEnd(nn, num) == IF (nn + 1) * BatchSize > num THEN num ELSE (nn + 1) * BatchSize

\* the drain loop losing the last work of the channel
drainAllButLast(ch) ==
    IF ch = <<>> THEN <<>> ELSE SubSeq(ch, 1, Len(ch) - 1)

\* for w := range worksCh { if w != nil { works = append(works, w) } }
drainChannel(ch) == SelectSeq(ch, LAMBDA w : w # Nil)

InitFetch ==
    /\ PureIdle
    /\ MainIdle
    /\ ExploreIdle
    /\ raw \in ShortResponses \cup LongResponses
    /\ summaries = <<>> /\ fpc = "start" /\ ferr = "nil"
    /\ batch = 0 /\ spawned = 0 /\ wg = 0 /\ inflight = EmptyBag /\ worksCh = <<>>
    /\ closed = FALSE /\ result = <<>> /\ fetched = EmptyBag

\* fetchWorkSummaries: http.Get returns an error.  The error message reads
\* resp.StatusCode: with a nil response that is a nil dereference, with the
\* non-nil response of a failed redirect an error is returned
FetchSummariesTransportError ==
    /\ fpc = "start"
    /\ \E respNil \in BOOLEAN :
          /\ fpc' = IF respNil THEN "panic" ELSE "failed"
          /\ ferr' = IF respNil THEN "nil" ELSE "http.Get failed"
    /\ UNCHANGED <<raw, summaries, batch, spawned, wg, inflight, worksCh, closed,
                   result, fetched, NotFetch>>

\* fetchWorkSummaries without the return after a status code of 300 or more:
\* the error is noted and the body is decoded
FetchSummariesBadStatusIgnored ==
    /\ fpc = "start"
    /\ ferr' = "http.Get bad response"
    /\ summaries' = filterUniqueTitles(raw)
    /\ batch' = 0
    /\ spawned' = batchStart(0)
    /\ fpc' = IF 0 < numBatches(Len(summaries')) THEN "spawn" ELSE "close"
    /\ UNCHANGED <<raw, wg, inflight, worksCh, closed, result, fetched, NotFetch>>

\* fetchWorkSummaries: a response with a status code of 300 or more
FetchSummariesBadStatus ==
    /\ fpc = "start"
    /\ fpc' = "failed"
    /\ ferr' = "http.Get bad response"
    /\ UNCHANGED <<raw, summaries, batch, spawned, wg, inflight, worksCh, closed,
                   result, fetched, NotFetch>>

\* fetchWorkSummaries: decodeWorks cannot decode the body
FetchSummariesUndecodable ==
    /\ fpc = "start"
    /\ fpc' = "failed"
    /\ ferr' = "decodeWorks failed"
    /\ UNCHANGED <<raw, summaries, batch, spawned, wg, inflight, worksCh, closed,
                   result, fetched, NotFetch>>

\* fetchWorkSummaries returns the de-duplicated summaries; worksCh is made
\* with their number as its capacity and the outer loop is entered
FetchSummariesOk ==
    /\ fpc = "start"
    /\ summaries' = filterUniqueTitles(raw)
    /\ batch' = 0
    /\ spawned' = batchStart(0)
    /\ fpc' = IF 0 < numBatches(Len(summaries')) THEN "spawn" ELSE "close"
    /\ UNCHANGED <<raw, ferr, wg, inflight, worksCh, closed, result, fetched, NotFetch>>

\* one iteration of the inner loop: wg.Add(1) and the go statement
Spawn ==
    /\ fpc = "spawn"
    /\ LET w == summaries[spawned + 1]
           g == [path |-> w.Path, st |-> "fetch", batch |-> spawned \div BatchSize]
       IN  /\ wg' = wg + 1
           /\ inflight' = inflight (+) SetToBag({g})
    /\ spawned' = spawned + 1
    /\ fpc' = IF spawned + 1 < batchEnd(batch, Len(summaries)) THEN "spawn" ELSE "wait"
    /\ UNCHANGED <<raw, summaries, ferr, batch, worksCh, closed, result, fetched,
                   NotFetch>>

\* the outer loop going on to its next iteration (or ending) without wg.Wait()
WaitSkipped ==
    /\ fpc = "wait"
    /\ batch' = batch + 1
    /\ IF batch + 1 < numBatches(Len(summaries))
       THEN fpc' = "spawn" /\ spawned' = batchStart(batch + 1)
       ELSE fpc' = "close" /\ UNCHANGED spawned
    /\ UNCHANGED <<raw, summaries, ferr, wg, inflight, worksCh, closed, result,
                   fetched, NotFetch>>

\* wg.Wait() returns when the counter is zero; then n++ and the loop test
Wait ==
    /\ fpc = "wait"
    /\ wg = 0
    /\ batch' = batch + 1
    /\ IF batch + 1 < numBatches(Len(summaries))
       THEN fpc' = "spawn" /\ spawned' = batchStart(batch + 1)
       ELSE fpc' = "close" /\ UNCHANGED spawned
    /\ UNCHANGED <<raw, summaries, ferr, wg, inflight, worksCh, closed, result,
                   fetched, NotFetch>>

\* close(worksCh)
Close ==
    /\ fpc = "close"
    /\ closed' = TRUE
    /\ fpc' = "drain"
    /\ UNCHANGED <<raw, summaries, ferr, batch, spawned, wg, inflight, worksCh,
                   result, fetched, NotFetch>>

\* the range over the closed channel, and the return
Drain ==
    /\ fpc = "drain"
    /\ result' = drainChannel(worksCh)
    /\ worksCh' = <<>>
    /\ ferr' = "nil"
    /\ fpc' = "done"
    /\ UNCHANGED <<raw, summaries, batch, spawned, wg, inflight, closed, fetched,
                   NotFetch>>

\* a goroutine: url.Parse(w.Path) fails; it logs and returns (wg.Done)
GoParseFail ==
    \E g \in BagToSet(inflight) :
        /\ g.st = "fetch"
        /\ pathParseFails(g.path)
        /\ inflight' = inflight (-) SetToBag({g})
        /\ wg' = wg - 1
        /\ UNCHANGED <<raw, summaries, fpc, ferr, batch, spawned, worksCh, closed,
                       result, fetched, NotFetch>>

\* a goroutine: fetchWork returns an error; it logs and returns (wg.Done)
GoFetchFail ==
    \E g \in BagToSet(inflight) :
        /\ g.st = "fetch"
        /\ ~pathParseFails(g.path)
        /\ inflight' = inflight (-) SetToBag({g})
        /\ wg' = wg - 1
        /\ UNCHANGED <<raw, summaries, fpc, ferr, batch, spawned, worksCh, closed,
                       result, fetched, NotFetch>>

\* a goroutine: fetchWork returns the decoded work
GoFetchOk ==
    \E g \in BagToSet(inflight) :
        /\ g.st = "fetch"
        /\ ~pathParseFails(g.path)
        /\ inflight' = (inflight (-) SetToBag({g})) (+) SetToBag({[g EXCEPT !.st = "send"]})
        /\ fetched' = fetched (+) SetToBag({fetchWorkDoc(g.path)})
        /\ UNCHANGED <<raw, summaries, fpc, ferr, batch, spawned, wg, worksCh, closed,
                       result, NotFetch>>

\* a goroutine: the detail request is answered with a status of 300 or more
\* and a body that is well-formed XML (the registry's error document).
\* fetchWork does not look at the status, and Work, which names no root
\* element, decodes from any document: fetchWork returns a Work without
\* values and no error.  Such answers are drawn for the short responses
GoFetchBadStatus ==
    \E g \in BagToSet(inflight) :
        /\ g.st = "fetch"
        /\ ~pathParseFails(g.path)
        /\ Len(raw) <= MaxShort
        /\ inflight' = (inflight (-) SetToBag({g}))
                           (+) SetToBag({[g EXCEPT !.st = "send error document"]})
        /\ fetched' = fetched (+) SetToBag({ErrorDocumentWork})
        /\ UNCHANGED <<raw, summaries, fpc, ferr, batch, spawned, wg, worksCh, closed,
                       result, NotFetch>>

\* a goroutine: works <- work, and the return (wg.Done).  The send waits while
\* the buffer is full and panics on a closed channel
GoSend ==
    \E g \in BagToSet(inflight) :
        /\ g.st \in {"send", "send error document"}
        /\ closed \/ Len(worksCh) < chanCap(Len(summaries))
        /\ IF closed
           THEN /\ fpc' = "panic"
                /\ UNCHANGED <<worksCh, inflight, wg>>
           ELSE /\ worksCh' = Append(worksCh, IF g.st = "send" THEN fetchWorkDoc(g.path)
                                               ELSE ErrorDocumentWork)
                /\ inflight' = inflight (-) SetToBag({g})
                /\ wg' = wg - 1
                /\ UNCHANGED fpc
        /\ UNCHANGED <<raw, summaries, ferr, batch, spawned, closed, result, fetched,
                       NotFetch>>

NextFetch ==
    \/ FetchSummariesTransportError
    \/ FetchSummariesBadStatus
    \/ FetchSummariesUndecodable
    \/ FetchSummariesOk
    \/ Spawn
    \/ Wait
    \/ Close
    \/ Drain
    \/ GoParseFail
    \/ GoFetchFail
    \/ GoFetchOk
    \/ GoFetchBadStatus
    \/ GoSend

SpecFetch == InitFetch /\ [][NextFetch]_vars

\* every detail fetch returns, and the scheduler runs a goroutine that can
\* take a step
SpecFetchFair == SpecFetch /\ WF_vars(NextFetch)

\* C1: the number of detail fetches in flight at the same time never exceeds
\* 20, whatever the number of summaries and the order of the completions.
C1_AtMostTwentyInFlight ==
    BagCardinality(inflight) <= 20

\* a response with more than 20 summaries, and 20 goroutines in flight
C1_Witness ==
    /\ Len(summaries) > 20
    /\ BagCardinality(inflight) = 20

\* C2: no detail fetch of a later batch runs while one of an earlier batch is
\* unfinished: the goroutines in flight are all of the batch the loop is in,
\* and all the summaries of the earlier batches have been ranged over.
C2_BatchBarrier ==
    \A g \in BagToSet(inflight) :
        /\ \A h \in BagToSet(inflight) : g.batch = h.batch
        /\ g.batch = batch
        /\ spawned > g.batch * 20

\* a goroutine of the second batch runs after a fetch of the first batch has
\* failed and another has succeeded
C2_Witness ==
    /\ \E g \in BagToSet(inflight) : g.batch = 1
    /\ Len(worksCh) \in 1..19

RECURSIVE BagOfSeq(_)
BagOfSeq(q) == IF q = <<>> THEN EmptyBag ELSE SetToBag({Head(q)}) (+) BagOfSeq(Tail(q))

\* C3: once the summary fetch has succeeded fetchWorks returns no error, and
\* the list it returns holds, as a multiset, exactly the works the successful
\* detail fetches returned.
C3_SuccessesReturned ==
    /\ fpc = "done" => ferr = "nil" /\ BagOfSeq(result) = fetched
    /\ fpc = "failed" => spawned = 0 /\ fetched = EmptyBag /\ summaries = <<>>

\* three summaries: one path was unparseable or its fetch failed, two fetches
\* succeeded and completed in the order opposite to the summaries'
C3_Witness ==
    /\ fpc = "done"
    /\ Len(summaries) = 3
    /\ Len(result) = 2
    /\ result[1].Path > result[2].Path

(***************************************************************************)
(* SpecMain: the orcid-pull command.  main explores the users, fetches     *)
(* their publications (from the snapshot file or the registry), backfills  *)
(* missing authors, saves the snapshots, recomputes the contributors' lines*)
(* and updates the profile pages; then it does the same for the users of   *)
(* the category "PI" and updates the page of publications by year.         *)
(***************************************************************************)
\* the command reads a snapshot file younger than 23 hours
ObsoleteHours == 23
\* Registry.FetchWorks reads a snapshot file that is at most six days old
RegistryFreshHours == 144

\* strings.Join(elems, sep)
RECURSIVE Join(_, _)
Join(elems, sep) ==
    IF elems = <<>> THEN <<>>
    ELSE IF Len(elems) = 1 THEN elems[1]
    ELSE elems[1] \o sep \o Join(Tail(elems), sep)

\* the loop body shared by the three updateContributorsLine functions and
\* updateMarkup: the names of the contributors joined with ", "
contributorsLine(w) ==
    Join([ii \in 1..Len(w.Contributors) |-> w.Contributors[ii].Name], <<",", " ">>)

\* sort.Slice(works, Year descending) in Registry.FetchWorks; for the short
\* slices drawn here sort.Slice is an insertion sort, which keeps the order of
\* works of the same year
RECURSIVE insertByYear(_, _)
insertByYear(w, s) ==
    IF s = <<>> THEN <<w>>
    ELSE IF w.Year > Head(s).Year THEN <<w>> \o s
         ELSE <<Head(s)>> \o insertByYear(w, Tail(s))

RECURSIVE sortWorksByYear(_)
sortWorksByYear(works) ==
    IF works = <<>> THEN <<>>
    ELSE insertByYear(works[Len(works)], sortWorksByYear(SubSeq(works, 1, Len(works) - 1)))

\* updateExternalIDsURL of the Registry library, external ID ii of work w: no
\* unescaping and no parsing of the URL
registryUpdateExternalID(w, ii) ==
    LET id == w.ExternalIDs[ii]
    IN  CASE id.Type = "doi" ->
               IF Len(id.URL) > 0
               THEN [w EXCEPT !.DoiURI = id.URL]
               ELSE IF Len(id.Value) > 0
               THEN [w EXCEPT !.DoiURI = DoiPrefix \o id.Value,
                              !.ExternalIDs[ii].URL = DoiPrefix \o id.Value]
               ELSE w
          [] id.Type = "eid" -> [w EXCEPT !.ExternalIDs[ii].URL = <<>>]
          [] OTHER -> w

RECURSIVE registryUpdateExternalIDsFrom(_, _)
registryUpdateExternalIDsFrom(w, ii) ==
    IF ii > Len(w.ExternalIDs) THEN w
    ELSE registryUpdateExternalIDsFrom(registryUpdateExternalID(w, ii), ii + 1)

updateExternalIDsURL(works) ==
    [i \in 1..Len(works) |-> registryUpdateExternalIDsFrom(works[i], 1)]

\* updateContributorsLine of the Registry library
registryUpdateContributorsLine(works) ==
    [i \in 1..Len(works) |-> [works[i] EXCEPT !.ContributorsLine = contributorsLine(works[i])]]

\* updateMarkup of the Registry library: <inf> and <sup> become wiki
\* templates, and the contributors' line is computed once more
updateMarkup(works) ==
    [i \in 1..Len(works) |->
        [works[i] EXCEPT
            !.Title =
                ReplaceAll(
                    ReplaceAll(
                        ReplaceAll(
                            ReplaceAll(
                                ReplaceAll(
                                    ReplaceAll(works[i].Title,
                                        <<"<", "i", "n", "f", ">">>, <<"<", "/", "n", "o", "w", "i", "k", "i", ">", "{", "{", "s", "u", "b", "|">>),
                                    <<"<", "/", "i", "n", "f", ">">>, <<"}", "}", "<", "n", "o", "w", "i", "k", "i", ">">>),
                                <<"&", "l", "t", ";", "i", "n", "f", "&", "g", "t", ";">>,
                                <<"<", "/", "n", "o", "w", "i", "k", "i", ">", "{", "{", "s", "u", "b", "|">>),
                            <<"&", "l", "t", ";", "/", "i", "n", "f", "&", "g", "t", ";">>,
                            <<"}", "}", "<", "n", "o", "w", "i", "k", "i", ">">>),
                        <<"<", "s", "u", "p", ">">>, <<"<", "/", "n", "o", "w", "i", "k", "i", ">", "{", "{", "s", "u", "p", "|">>),
                    <<"<", "/", "s", "u", "p", ">">>, <<"}", "}", "<", "n", "o", "w", "i", "k", "i", ">">>),
            !.ContributorsLine = contributorsLine(works[i])]]

\* what Registry.FetchWorks does to the works it has read or downloaded
registryUpdate(works) ==
    updateMarkup(registryUpdateContributorsLine(updateExternalIDsURL(sortWorksByYear(works))))

\* a snapshot file: missing, or its age in hours and the works encoded in it
NoFile == [exists |-> FALSE, age |-> 0, content |-> <<>>]
FileOf(works) == [exists |-> TRUE, age |-> 0, content |-> works]

\* isFileNew of the command
isFileNew(f, maxHours) == f.exists /\ f.age < maxHours

\* IsFileNew of the library
IsFileNew(f, maxHours) == f.exists /\ ~(f.age > maxHours)

\* ReadWorks: the works encoded in the file, in the file's order
ReadWorks(f) == f.content

(***************************************************************************)
(* The authors of a citation (citations.go).                               *)
(***************************************************************************)
Digits == {"0", "1", "2", "3", "4", "5", "6", "7", "8", "9"}
Letters == {"a", "b", "c", "d", "e", "f", "g", "h", "i", "j", "k", "l", "m",
            "n", "o", "p", "q", "r", "s", "t", "u", "v", "w", "x", "y", "z",
            "A", "B", "C", "D", "E", "F", "G", "H", "I", "J", "K", "L", "M",
            "N", "O", "P", "Q", "R", "S", "T", "U", "V", "W", "X", "Y", "Z"}

\* the class \W of regexp
NonWord(c) == c \notin Digits \cup Letters \cup {"_"}

\* the class \s of regexp
Space(c) == c \in {" ", "\t", "\n", "\f", "\r"}

\* strings.Trim(s, c) for a cutset of one character
RECURSIVE TrimLeft(_, _)
TrimLeft(s, c) == IF s # <<>> /\ Head(s) = c THEN TrimLeft(Tail(s), c) ELSE s

RECURSIVE TrimRight(_, _)
TrimRight(s, c) ==
    IF s # <<>> /\ s[Len(s)] = c THEN TrimRight(SubSeq(s, 1, Len(s) - 1), c) ELSE s

Trim(s, c) == TrimRight(TrimLeft(s, c), c)

\* the cleaning up both parsers do
cleanUp(match) == Trim(Trim(Trim(Trim(match, "\""), " "), "."), ",")

\* the ends of the matches of \(\d{4}\) in a line s
yearEnds(s) ==
    {e \in 6..Len(s) : /\ s[e - 5] = "(" /\ s[e] = ")"
                       /\ \A k \in (e - 4)..(e - 1) : s[k] \in Digits}

\* the ends of the matches of [\W|,|.|\s]{2,}" in a line s
quoteEnds(s) ==
    {e \in 3..Len(s) : s[e] = "\"" /\ NonWord(s[e - 1]) /\ NonWord(s[e - 2])}

\* the ends of the matches of \W\s" in a line s
bibQuoteEnds(s) ==
    {e \in 3..Len(s) : s[e] = "\"" /\ Space(s[e - 1]) /\ NonWord(s[e - 2])}

Max(S) == CHOOSE x \in S : \A y \in S : y <= x

\* the match of .*R in a line s, where ends are the ends of the matches of R:
\* .* is greedy, so the match runs from the start of the line to the last end
greedyMatch(s, ends) == SubSeq(s, 1, Max(ends))

ParseOk(authors) == [panic |-> FALSE, err |-> FALSE, authors |-> authors]
ParseError == [panic |-> FALSE, err |-> TRUE, authors |-> <<>>]
ParsePanic == [panic |-> TRUE, err |-> FALSE, authors |-> <<>>]

\* parseCitationAuthorsIEEE for a citation of one line that does not start
\* with "@"; match[:len(match)-7] panics for a match shorter than 7
parseCitationAuthorsIEEE(s) ==
    IF yearEnds(s) # {}
    THEN LET match == greedyMatch(s, yearEnds(s))
         IN  IF Len(match) < 7 THEN ParsePanic
             ELSE ParseOk(cleanUp(SubSeq(match, 1, Len(match) - 7)))
    ELSE IF quoteEnds(s) # {}
    THEN ParseOk(cleanUp(greedyMatch(s, quoteEnds(s))))
    ELSE ParseError

\* parseCitationAuthorsBibTeX for a citation of one line that does not start
\* with "@"
parseCitationAuthorsBibTeX(s) ==
    IF bibQuoteEnds(s) # {}
    THEN ParseOk(cleanUp(greedyMatch(s, bibQuoteEnds(s))))
    ELSE ParseError

NoContributors == [panic |-> FALSE, contribs |-> <<>>]

\* citationContributors: all the authors of the citation as one contributor
citationContributors(w) ==
    IF Len(w.Contributors) > 0 THEN NoContributors
    ELSE IF w.Citation = Nil THEN NoContributors
    ELSE LET r == CASE w.Citation.Type = "formatted-ieee" ->
                          parseCitationAuthorsIEEE(w.Citation.Value)
                    [] w.Citation.Type = "bibtex" ->
                          parseCitationAuthorsBibTeX(w.Citation.Value)
                    [] OTHER -> ParseError
         IN  IF r.panic THEN [panic |-> TRUE, contribs |-> <<>>]
             ELSE IF r.err THEN NoContributors
             ELSE [panic |-> FALSE, contribs |-> <<[Name |-> r.authors]>>]

\* citationContributors gives the citation of w to one of the parsers
parsesCitation(w) ==
    /\ Len(w.Contributors) = 0
    /\ w.Citation # Nil
    /\ w.Citation.Type \in {"formatted-ieee", "bibtex"}

\* what crossRefContributors can do for w: no lookup and nothing returned if
\* w has contributors, has no DOI, or crossref.DOIFromURL finds no DOI in
\* the URL; else crossref.GetWork is called, and nothing (the lookup failed
\* or the record has no authors) or the record's authors are returned
CrossRefAuthors == <<[Name |-> <<"n">>], [Name |-> <<"m">>]>>
NoLookup == [lookup |-> FALSE, contribs |-> <<>>]

\* crossRefContributors without the DOI check
crossRefContributorsAnyWork(w) ==
    IF Len(w.Contributors) > 0 THEN { NoLookup }
    ELSE { NoLookup,
           [lookup |-> TRUE, contribs |-> <<>>],
           [lookup |-> TRUE, contribs |-> CrossRefAuthors] }

crossRefContributors(w) ==
    IF Len(w.Contributors) > 0 THEN { NoLookup }
    ELSE IF Len(w.DoiURI) = 0 THEN { NoLookup }
    ELSE { NoLookup,
           [lookup |-> TRUE, contribs |-> <<>>],
           [lookup |-> TRUE, contribs |-> CrossRefAuthors] }

\* what main has asked of the registry, of CrossRef and of the parsers
Download(t) == [call |-> "fetchWorks", user |-> t, path |-> 0]
Lookup(t, w) == [call |-> "crossref.GetWork", user |-> t, path |-> w.Path]
Parse(t, w) == [call |-> "parseCitationAuthors", user |-> t, path |-> w.Path]

(***************************************************************************)
(* The wiki's users and the registry's works the command is run on.        *)
(***************************************************************************)
UserTitles == {"U1", "U2"}

\* a journal article of year 1 with two contributors
Wa ==
    [NewWork(1, <<"a">>, "journal-article", 1) EXCEPT
        !.Contributors = <<[Name |-> <<"x">>], [Name |-> <<"y">>]>>]

\* a conference paper of year 0 without contributors, with a DOI
Wb ==
    [NewWork(2, <<"b">>, "conference-paper", 0) EXCEPT
        !.ExternalIDs = <<[Type |-> "doi", Value |-> <<"v">>, URL |-> <<>>]>>]

\* a book of year 1 without contributors, whose title differs from Wa's in
\* case and parentheses only, with a DOI and an IEEE citation: c. (2010)
Wc ==
    [NewWork(3, <<"(", "A", ")">>, "book", 1) EXCEPT
        !.ExternalIDs = <<[Type |-> "doi", Value |-> <<"w">>, URL |-> <<>>]>>,
        !.Citation = [Type |-> "formatted-ieee",
                      Value |-> <<"c", ".", " ", "(", "2", "0", "1", "0", ")">>]]

\* a second registry entry of the same book, with a BibTeX citation: d, "t"
Wd ==
    [NewWork(4, <<"a", "-">>, "book", 0) EXCEPT
        !.Citation = [Type |-> "bibtex",
                      Value |-> <<"d", ",", " ", "\"", "t", "\"">>]]

\* a work whose IEEE citation is a year only: (2010)
We ==
    [NewWork(5, <<"e">>, "other", 2) EXCEPT
        !.Citation = [Type |-> "formatted-ieee",
                      Value |-> <<"(", "2", "0", "1", "0", ")">>]]

\* the lists of works the registry has for a user
RegistryLists == { <<Wa, Wb>>, <<Wc, Wd>>, <<We>> }

\* the snapshot file of a user at the start of a run: missing, or written by
\* an earlier run 22, 23, 24 or 145 hours ago
FileAges == {ObsoleteHours - 1, ObsoleteHours, ObsoleteHours + 1, RegistryFreshHours + 1}
FilesAtStart(works) ==
    {NoFile} \cup {[FileOf(registryUpdate(filterUniqueTitles(works))) EXCEPT !.age = a] :
                       a \in FileAges}

\* the users exploreUsers can return: the goroutines append under a mutex in
\* the order they finish
ExploreResults == { <<>>, <<"U1">>, <<"U1", "U2">>, <<"U2", "U1">> }

\* the injective sequences over 1..n
Injections(n) ==
    {q \in UNION {[1..k -> 1..n] : k \in 0..n} :
        \A a, b \in DOMAIN q : a # b => q[a] # q[b]}

\* what fetchWorks of the Registry library can return without an error for a
\* registry document: the details of any of the deduplicated summaries, in
\* any order
fetchWorksResults(works) ==
    LET unique == filterUniqueTitles(works)
    IN  {[k \in DOMAIN q |-> unique[q[k]]] : q \in Injections(Len(unique))}

\* the works of all users in the order of the nested loops, as pairs of
\* indexes
RECURSIVE workPositions(_, _)
workPositions(us, u) ==
    IF u > Len(us) THEN <<>>
    ELSE [k \in 1..Len(us[u].Works) |-> <<u, k>>] \o workPositions(us, u + 1)

\* updateContributorsLine of the command that leaves the lines as they are
keepContributorsLine(us) == us

\* updateContributorsLine of the command
updateContributorsLine(us) ==
    [u \in 1..Len(us) |->
        [us[u] EXCEPT !.Works =
            [k \in 1..Len(us[u].Works) |->
                [us[u].Works[k] EXCEPT !.ContributorsLine = contributorsLine(us[u].Works[k])]]]]

\* works = append(works, u.Works...) for every user
RECURSIVE allWorks(_)
allWorks(us) == IF us = <<>> THEN <<>> ELSE Head(us).Works \o allWorks(Tail(us))

InitMain ==
    /\ PureIdle
    /\ FetchIdle
    /\ ExploreIdle
    /\ mpc = "explore" /\ phase = "users"
    /\ registry \in [UserTitles -> RegistryLists]
    /\ files \in [UserTitles -> UNION {FilesAtStart(l) : l \in RegistryLists}]
    /\ \A t \in UserTitles : files[t] \in FilesAtStart(registry[t])
    /\ users = <<>> /\ ui = 0 /\ wi = 0
    /\ handed = <<>> /\ handedBy = "none" /\ grouped = <<>> /\ calls = <<>>

\* exploreUsers returns the users of the category
ExploreUsers ==
    /\ mpc = "explore"
    /\ \E us \in ExploreResults :
          users' = [k \in 1..Len(us) |-> [Title |-> us[k], Works |-> <<>>]]
    /\ mpc' = "fetch"
    /\ ui' = 1
    /\ UNCHANGED <<phase, registry, files, wi, handed, handedBy, grouped, calls, NotMain>>

\* exploreUsers returns an error: logger.Fatal
ExploreUsersError ==
    /\ mpc = "explore"
    /\ mpc' = "fatal"
    /\ UNCHANGED <<phase, registry, files, users, ui, wi, handed, handedBy, grouped, calls, NotMain>>

\* fetchPublications, one user whose file is younger than 23 hours; the file
\* is one an earlier run has written, which ReadWorks decodes
FetchPublicationsFromFile ==
    /\ mpc = "fetch" /\ ui <= Len(users)
    /\ LET f == files[users[ui].Title]
       IN  /\ isFileNew(f, ObsoleteHours)
           /\ users' = [users EXCEPT ![ui].Works = ReadWorks(f)]
    /\ ui' = ui + 1
    /\ UNCHANGED <<mpc, phase, registry, files, wi, handed, handedBy, grouped, calls, NotMain>>

\* fetchPublications, one user whose file is missing or older:
\* Registry.FetchWorks reads the file if it is at most six days old, else it
\* downloads the works and saves them
FetchPublicationsFromRegistry ==
    /\ mpc = "fetch" /\ ui <= Len(users)
    /\ LET t == users[ui].Title
           f == files[t]
       IN  /\ ~isFileNew(f, ObsoleteHours)
           /\ IF IsFileNew(f, RegistryFreshHours)
              THEN /\ users' = [users EXCEPT ![ui].Works = registryUpdate(ReadWorks(f))]
                   /\ UNCHANGED files
                   /\ UNCHANGED calls
              ELSE \E downloaded \in fetchWorksResults(registry[t]) :
                      LET works == registryUpdate(downloaded)
                      IN  /\ users' = [users EXCEPT ![ui].Works = works]
                          /\ files' = [files EXCEPT ![t] = FileOf(works)]
                          /\ calls' = Append(calls, Download(t))
    /\ ui' = ui + 1
    /\ UNCHANGED <<mpc, phase, registry, wi, handed, handedBy, grouped, NotMain>>

\* fetchPublications, one user whose works must be downloaded, and the fetch
\* of the summaries fails: logger.Fatal
FetchPublicationsError ==
    /\ mpc = "fetch" /\ ui <= Len(users)
    /\ ~IsFileNew(files[users[ui].Title], RegistryFreshHours)
    /\ calls' = Append(calls, Download(users[ui].Title))
    /\ mpc' = "fatal"
    /\ UNCHANGED <<phase, registry, files, users, ui, wi, handed, handedBy, grouped, NotMain>>

\* fetchPublications returns nil
FetchPublicationsReturn ==
    /\ mpc = "fetch" /\ ui > Len(users)
    /\ mpc' = "authors"
    /\ wi' = 1
    /\ UNCHANGED <<phase, registry, files, users, ui, handed, handedBy, grouped, calls, NotMain>>

\* the test of fetchMissingAuthors that never skips a work
hasAuthorsNever(w) == FALSE

\* the test of fetchMissingAuthors: skip if there are authors already
hasAuthors(w) == Len(w.Contributors) > 0

\* fetchMissingAuthors that returns the error of a lookup, which main makes
\* fatal
FetchMissingAuthorsFatal ==
    /\ mpc = "authors" /\ wi <= Len(workPositions(users, 1))
    /\ LET u == workPositions(users, 1)[wi][1]
           k == workPositions(users, 1)[wi][2]
           w == users[u].Works[k]
           t == users[u].Title
       IN  IF hasAuthors(w)
           THEN UNCHANGED <<mpc, users, calls>>
           ELSE \E found \in crossRefContributors(w) :
                   /\ users' = [users EXCEPT ![u].Works[k].Contributors = found.contribs]
                   /\ calls' = calls \o (IF found.lookup THEN <<Lookup(t, w)>> ELSE <<>>)
                   /\ mpc' = IF found.lookup /\ Len(found.contribs) = 0 THEN "fatal" ELSE mpc
    /\ wi' = wi + 1
    /\ UNCHANGED <<phase, registry, files, ui, handed, handedBy, grouped, NotMain>>

\* fetchMissingAuthors, one work: skipped if it has contributors, else the
\* authors CrossRef has for it, else the authors of its citation
FetchMissingAuthors ==
    /\ mpc = "authors" /\ wi <= Len(workPositions(users, 1))
    /\ LET u == workPositions(users, 1)[wi][1]
           k == workPositions(users, 1)[wi][2]
           w == users[u].Works[k]
           t == users[u].Title
           looked(r) == IF r.lookup THEN <<Lookup(t, w)>> ELSE <<>>
       IN  IF hasAuthors(w)
           THEN UNCHANGED <<mpc, users, calls>>
           ELSE \E found \in crossRefContributors(w) :
                   IF Len(found.contribs) > 0
                   THEN /\ users' = [users EXCEPT ![u].Works[k].Contributors = found.contribs]
                        /\ calls' = calls \o looked(found)
                        /\ UNCHANGED mpc
                   ELSE LET w1 == [w EXCEPT !.Contributors = found.contribs]
                            c == citationContributors(w1)
                        IN  /\ users' = [users EXCEPT ![u].Works[k].Contributors = c.contribs]
                            /\ calls' = calls \o looked(found) \o
                                           (IF parsesCitation(w1) THEN <<Parse(t, w)>> ELSE <<>>)
                            /\ mpc' = IF c.panic THEN "panic" ELSE mpc
    /\ wi' = wi + 1
    /\ UNCHANGED <<phase, registry, files, ui, handed, handedBy, grouped, NotMain>>

\* fetchMissingAuthors returns nil
FetchMissingAuthorsReturn ==
    /\ mpc = "authors" /\ wi > Len(workPositions(users, 1))
    /\ mpc' = IF phase = "users" THEN "dump" ELSE "lines"
    /\ ui' = 1
    /\ UNCHANGED <<phase, registry, files, users, wi, handed, handedBy, grouped, calls, NotMain>>

\* saving XML for each user, one user: dumpUserWorks unless the file is
\* younger than 23 hours; log.Fatal if the file cannot be written
DumpUserWorks ==
    /\ mpc = "dump" /\ ui <= Len(users)
    /\ LET t == users[ui].Title
       IN  IF isFileNew(files[t], ObsoleteHours)
           THEN UNCHANGED <<mpc, files>>
           ELSE \E ok \in BOOLEAN :
                   IF ok
                   THEN /\ files' = [files EXCEPT ![t] = FileOf(users[ui].Works)]
                        /\ UNCHANGED mpc
                   ELSE /\ mpc' = "fatal"
                        /\ UNCHANGED files
    /\ ui' = ui + 1
    /\ UNCHANGED <<phase, registry, users, wi, handed, handedBy, grouped, calls, NotMain>>

\* the loop over the users to save is over
DumpReturn ==
    /\ mpc = "dump" /\ ui > Len(users)
    /\ mpc' = "lines"
    /\ UNCHANGED <<phase, registry, files, users, ui, wi, handed, handedBy, grouped, calls, NotMain>>

\* updateContributorsLine(users)
UpdateContributorsLine ==
    /\ mpc = "lines"
    /\ users' = updateContributorsLine(users)
    /\ mpc' = "render"
    /\ ui' = 1
    /\ UNCHANGED <<phase, registry, files, wi, handed, handedBy, grouped, calls, NotMain>>

\* updateProfilePagesWithWorks, one user: the works are grouped, rendered
\* and the page is updated; an error of the rendering or of the update ends
\* the run
UpdateProfilePage ==
    /\ mpc = "render" /\ phase = "users" /\ ui <= Len(users)
    /\ handed' = users[ui].Works
    /\ handedBy' = "updateProfilePagesWithWorks"
    /\ grouped' = groupByTypeAndYear(users[ui].Works)
    /\ \E ok \in BOOLEAN : mpc' = IF ok THEN mpc ELSE "fatal"
    /\ ui' = ui + 1
    /\ UNCHANGED <<phase, registry, files, users, wi, calls, NotMain>>

\* updateProfilePagesWithWorks returns nil: the second part of main begins
UpdateProfilePagesReturn ==
    /\ mpc = "render" /\ phase = "users" /\ ui > Len(users)
    /\ phase' = "PI"
    /\ mpc' = "explore"
    /\ UNCHANGED <<registry, files, users, ui, wi, handed, handedBy, grouped, calls, NotMain>>

\* updatePublicationsByYearWithWorks: nothing for no users, else the works of
\* all users are appended, grouped, rendered and the page is updated
UpdatePublicationsByYear ==
    /\ mpc = "render" /\ phase = "PI"
    /\ IF Len(users) = 0
       THEN /\ mpc' = "exit"
            /\ UNCHANGED <<handed, handedBy, grouped>>
       ELSE /\ handed' = allWorks(users)
            /\ handedBy' = "updatePublicationsByYearWithWorks"
            /\ grouped' = groupByTypeAndYear(allWorks(users))
            /\ \E ok \in BOOLEAN : mpc' = IF ok THEN "exit" ELSE "fatal"
    /\ UNCHANGED <<phase, registry, files, users, ui, wi, calls, NotMain>>

NextMain ==
    \/ ExploreUsers
    \/ ExploreUsersError
    \/ FetchPublicationsFromFile
    \/ FetchPublicationsFromRegistry
    \/ FetchPublicationsError
    \/ FetchPublicationsReturn
    \/ FetchMissingAuthors
    \/ FetchMissingAuthorsReturn
    \/ DumpUserWorks
    \/ DumpReturn
    \/ UpdateContributorsLine
    \/ UpdateProfilePage
    \/ UpdateProfilePagesReturn
    \/ UpdatePublicationsByYear

SpecMain == InitMain /\ [][NextMain]_vars

\* the names of the contributors cs, each but the first after ", "
RECURSIVE NamesJoined(_)
NamesJoined(cs) ==
    IF cs = <<>> THEN <<>>
    ELSE IF Len(cs) = 1 THEN cs[1].Name
    ELSE NamesJoined(SubSeq(cs, 1, Len(cs) - 1)) \o <<",", " ">> \o cs[Len(cs)].Name

\* C8: whenever works are handed to rendering, the contributors' line of each
\* is the names of its contributors joined with ", " in list order, also for
\* the works whose contributors the author backfill has changed.
C8_ContributorsLineAtHandOff ==
    handedBy # "none" =>
        \A k \in 1..Len(handed) :
            handed[k].ContributorsLine = NamesJoined(handed[k].Contributors)

\* the page by year is given the conference paper, which the registry lists
\* without contributors, with the two authors of CrossRef
C8_Witness ==
    /\ handedBy = "updatePublicationsByYearWithWorks"
    /\ \E k \in 1..Len(handed) :
          /\ handed[k].Path = 2
          /\ handed[k].Contributors = CrossRefAuthors
          /\ handed[k].ContributorsLine = <<"n", ",", " ", "m">>

\* C10: no list of works handed to grouping, for one user or for the page by
\* year, holds two works whose normalized titles are equal.
C10_NoEqualTitlesHanded ==
    handedBy # "none" =>
        \A j, k \in 1..Len(handed) :
            j # k => simplifyString(handed[j].Title) # simplifyString(handed[k].Title)

(***************************************************************************)
(* SpecID: IDFromURL applied to strings put together from an optional      *)
(* scheme, a host, slashes, an identifier and an optional trailing slash.  *)
(***************************************************************************)
\* strings.HasPrefix
HasPrefix(s, prefix) ==
    Len(s) >= Len(prefix) /\ SubSeq(s, 1, Len(prefix)) = prefix

\* the index of the first c in s, or 0
IndexOf(s, c) ==
    IF \E k \in 1..Len(s) : s[k] = c
    THEN CHOOSE k \in 1..Len(s) : s[k] = c /\ \A j \in 1..(k - 1) : s[j] # c
    ELSE 0

\* getScheme of net/url: the length of the scheme of rawURL (0 for none), or
\* -1 for the error "missing protocol scheme"
RECURSIVE schemeLenFrom(_, _)
schemeLenFrom(s, i) ==
    IF i > Len(s) THEN 0
    ELSE IF s[i] \in Letters THEN schemeLenFrom(s, i + 1)
    ELSE IF s[i] \in Digits \cup {"+", "-", "."}
         THEN IF i = 1 THEN 0 ELSE schemeLenFrom(s, i + 1)
    ELSE IF s[i] = ":" THEN IF i = 1 THEN 0 - 1 ELSE i - 1
    ELSE 0

getScheme(s) == schemeLenFrom(s, 1)

\* validOptionalPort of net/url: empty, or a colon and digits
validOptionalPort(port) ==
    port = <<>> \/ (port[1] = ":" /\ \A k \in 2..Len(port) : port[k] \in Digits)

\* parseHost of net/url for a host without brackets: what follows the last
\* colon must be a port
hostFails(host) ==
    \E k \in 1..Len(host) :
        /\ host[k] = ":"
        /\ \A j \in (k + 1)..Len(host) : host[j] # ":"
        /\ ~validOptionalPort(SubSeq(host, k, Len(host)))

UrlError == [err |-> TRUE, Path |-> <<>>]
UrlOf(path) == [err |-> FALSE, Path |-> path]

\* url.Parse for a string without "%", "@" and "[": the error, or the Path of
\* the URL
urlParse(rawURL) ==
    LET hash == IndexOf(rawURL, "#")
        u == IF hash = 0 THEN rawURL ELSE SubSeq(rawURL, 1, hash - 1)
        n == getScheme(u)
        scheme == IF n > 0 THEN ToLower(SubSeq(u, 1, n)) ELSE <<>>
        afterScheme == IF n > 0 THEN SubSeq(u, n + 2, Len(u)) ELSE u
        mark == IndexOf(afterScheme, "?")
        rest == IF mark = 0 THEN afterScheme ELSE SubSeq(afterScheme, 1, mark - 1)
        colon == IndexOf(rest, ":")
        slash == IndexOf(rest, "/")
    IN  IF urlParseFails(rawURL) THEN UrlError
        ELSE IF n < 0 THEN UrlError
        ELSE IF ~HasPrefix(rest, <<"/">>) /\ scheme # <<>> THEN UrlOf(<<>>)
        ELSE IF ~HasPrefix(rest, <<"/">>) /\ colon > 0 /\ (slash = 0 \/ colon < slash)
             THEN UrlError
        ELSE IF (scheme # <<>> \/ ~HasPrefix(rest, <<"/", "/", "/">>))
                /\ HasPrefix(rest, <<"/", "/">>)
             THEN LET r == SubSeq(rest, 3, Len(rest))
                      cut == IndexOf(r, "/")
                      authority == IF cut = 0 THEN r ELSE SubSeq(r, 1, cut - 1)
                      path == IF cut = 0 THEN <<>> ELSE SubSeq(r, cut, Len(r))
                  IN  IF hostFails(authority) THEN UrlError ELSE UrlOf(path)
        ELSE UrlOf(rest)

Http == <<"h", "t", "t", "p">>
HttpsScheme == <<"h", "t", "t", "p", "s", ":", "/", "/">>
HttpScheme == <<"h", "t", "t", "p", ":", "/", "/">>

\* IDFromURL creates ID from an URL.
IDFromURL(s) ==
    LET uri == urlParse(IF ~HasPrefix(s, Http) THEN HttpsScheme \o s ELSE s)
    IN  IF uri.err THEN [err |-> TRUE, id |-> <<>>]
        ELSE [err |-> FALSE, id |-> Trim(uri.Path, "/")]

\* the parts the inputs are put together from
InputSchemes == { <<>>, HttpScheme, HttpsScheme }
InputHosts == { <<>>, <<"o", ".", "o">>, <<"h", "t", "t", "p", "d", ".", "o">> }
InputSlashes == { <<>>, <<"/">>, <<"/", "/">>, <<"/", "/", "/">> }
InputIDs == { <<>>, <<"0", "-", "1">>, <<"0", "/", "1">> }
InputTails == { <<>>, <<"/">>, <<"\t">> }

InputParts ==
    [scheme : InputSchemes, host : InputHosts, slashes : InputSlashes,
     id : InputIDs, tail : InputTails]

InputOf(p) == p.scheme \o p.host \o p.slashes \o p.id \o p.tail

InitID ==
    /\ FetchIdle
    /\ MainIdle
    /\ ExploreIdle
    /\ pc = "start"
    /\ arg \in InputParts
    /\ ret = <<>>

ParseID ==
    /\ pc = "start"
    /\ ret' = IDFromURL(InputOf(arg))
    /\ pc' = "done"
    /\ UNCHANGED <<arg, NotPure>>

NextID == ParseID

SpecID == InitID /\ [][NextID]_vars

\* the input is a host, one or more slashes and an identifier, with or
\* without a scheme and a trailing slash
HostAndPath(p) ==
    p.host # <<>> /\ p.slashes # <<>> /\ p.id # <<>> /\ p.tail # <<"\t">>

\* C11: for a host followed by slashes and an identifier IDFromURL returns
\* the identifier, with no leading or trailing slash, whatever the scheme
\* (also none), the number of slashes and the trailing slash.
C11_PathOfInput ==
    pc = "done" /\ HostAndPath(arg) => ~ret.err /\ ret.id = arg.id

\* C12: IDFromURL returns an error for an input that url.Parse rejects, and
\* never an empty identifier without an error.
C12_EmptyIsError ==
    pc = "done" =>
        /\ arg.tail = <<"\t">> => ret.err
        /\ ~(ret.id = <<>> /\ ~ret.err)

\* C13: in fetchPublications the snapshot file of a user is read instead of a
\* download if and only if it is younger than 23 hours; for a missing or
\* older file the works are downloaded from the registry and the file is
\* written again.
C13_FileIffFresh ==
    [][(mpc = "fetch" /\ ui <= Len(users) /\ ui' = ui + 1) =>
          LET t == users[ui].Title
              f == files[t]
          IN  IF isFileNew(f, ObsoleteHours)
              THEN /\ calls' = calls
                   /\ users'[ui].Works = ReadWorks(f)
                   /\ files' = files
              ELSE /\ calls' = Append(calls, Download(t))
                   /\ files'[t] = FileOf(users'[ui].Works)]_vars

(***************************************************************************)
(* SpecMarkup: UpdateMarkup applied to a work whose title is put together  *)
(* from tags, pieces of tags and other text.                               *)
(***************************************************************************)
\* the longest title is made of MaxPieces pieces
MaxPieces == 3

InfOpen == <<"<", "i", "n", "f", ">">>
InfClose == <<"<", "/", "i", "n", "f", ">">>
InfOpenEscaped == <<"&", "l", "t", ";", "i", "n", "f", "&", "g", "t", ";">>
InfCloseEscaped == <<"&", "l", "t", ";", "/", "i", "n", "f", "&", "g", "t", ";">>
SupOpen == <<"<", "s", "u", "p", ">">>
SupClose == <<"<", "/", "s", "u", "p", ">">>
SubMarker == <<"<", "/", "n", "o", "w", "i", "k", "i", ">", "{", "{", "s", "u", "b", "|">>
SupMarker == <<"<", "/", "n", "o", "w", "i", "k", "i", ">", "{", "{", "s", "u", "p", "|">>
CloseMarker == <<"}", "}", "<", "n", "o", "w", "i", "k", "i", ">">>

\* the replacements of UpdateMarkup without the two for the escaped tags
markupTitleUnescapedOnly(title) ==
    ReplaceAll(
        ReplaceAll(
            ReplaceAll(
                ReplaceAll(title, InfOpen, SubMarker),
                InfClose, CloseMarker),
            SupOpen, SupMarker),
        SupClose, CloseMarker)

\* the six replacements UpdateMarkup makes in a title, innermost first
markupTitle(title) ==
    ReplaceAll(
        ReplaceAll(
            ReplaceAll(
                ReplaceAll(
                    ReplaceAll(
                        ReplaceAll(title, InfOpen, SubMarker),
                        InfClose, CloseMarker),
                    InfOpenEscaped, SubMarker),
                InfCloseEscaped, CloseMarker),
            SupOpen, SupMarker),
        SupClose, CloseMarker)

\* UpdateMarkup: the title with the markers, and the contributors' line
UpdateMarkup(works) ==
    [i \in 1..Len(works) |->
        [works[i] EXCEPT !.Title = markupTitle(works[i].Title),
                         !.ContributorsLine = contributorsLine(works[i])]]

\* the pieces of the titles: the six tags, pieces that make a tag when put
\* side by side, and other text
TitlePieces ==
    { InfOpen, InfClose, InfOpenEscaped, InfCloseEscaped, SupOpen, SupClose,
      <<"<">>, <<"i", "n", "f", ">">>, <<"&", "l", "t", ";">>,
      <<"i", "n", "f", "&", "g", "t", ";">>, <<"/", "s", "u", "p", ">">>, <<"x">> }

RECURSIVE Flatten(_)
Flatten(pieces) == IF pieces = <<>> THEN <<>> ELSE Head(pieces) \o Flatten(Tail(pieces))

InitMarkup ==
    /\ FetchIdle
    /\ MainIdle
    /\ ExploreIdle
    /\ pc = "start"
    /\ arg \in StringsUpTo(TitlePieces, MaxPieces)
    /\ ret = <<>>

Markup ==
    /\ pc = "start"
    /\ ret' = UpdateMarkup(<<[Wa EXCEPT !.Title = Flatten(arg)]>>)
    /\ pc' = "done"
    /\ UNCHANGED <<arg, NotPure>>

NextMarkup == Markup

SpecMarkup == InitMarkup /\ [][NextMarkup]_vars

\* tag occurs in s
Occurs(tag, s) ==
    \E k \in 1..(Len(s) - Len(tag) + 1) : SubSeq(s, k, k + Len(tag) - 1) = tag

\* the marker a tag stands for
MarkerOf(tag) ==
    CASE tag \in {InfOpen, InfOpenEscaped} -> SubMarker
      [] tag = SupOpen -> SupMarker
      [] OTHER -> CloseMarker

AllTags == {InfOpen, InfClose, InfOpenEscaped, InfCloseEscaped, SupOpen, SupClose}

\* s read once from left to right: a tag becomes its marker, any other
\* character stays
RECURSIVE Marked(_)
Marked(s) ==
    IF s = <<>> THEN <<>>
    ELSE IF \E tag \in AllTags : HasPrefix(s, tag)
    THEN LET tag == CHOOSE g \in AllTags : HasPrefix(s, g)
         IN  MarkerOf(tag) \o Marked(SubSeq(s, Len(tag) + 1, Len(s)))
    ELSE <<Head(s)>> \o Marked(Tail(s))

\* C14: after UpdateMarkup none of the six tags occurs in the title: every
\* opening tag has become the sub (or sup) marker, every closing tag the
\* closing marker, and the rest of the title is as it was.
C14_NoTagLeft ==
    pc = "done" =>
        /\ \A tag \in AllTags : ~Occurs(tag, ret[1].Title)
        /\ ret[1].Title = Marked(Flatten(arg))

\* a title with an escaped tag put together from two pieces and a plain tag
C14_Witness ==
    /\ pc = "done"
    /\ arg = << <<"&", "l", "t", ";">>, <<"i", "n", "f", "&", "g", "t", ";">>, SupClose >>
    /\ ret[1].Title = SubMarker \o CloseMarker

(***************************************************************************)
(* SpecCitation: citationContributors applied to a work with or without    *)
(* contributors, without a citation or with a citation of one of three     *)
(* kinds and one of several texts (none of which starts with "@").         *)
(***************************************************************************)
CitationTypes == {"formatted-ieee", "bibtex", "formatted-apa"}

CitationValues ==
    { <<>>,
      <<"x">>,
      <<"c", ".", " ", "(", "2", "0", "1", "0", ")">>,
      <<"(", "2", "0", "1", "0", ")">>,
      <<" ", "(", "2", "0", "1", "0", ")">>,
      <<"d", ",", " ", "\"", "t", "\"">>,
      <<"\"", "t", "\"", " ", "(", "2", "0", "1", "0", ")">>,
      <<"x", "\"">>,
      <<"(", "2", "0", "1", ")">>,
      <<"c", " ", "(", "2", "0", "1", "0", ")", " ", "(", "2", "0", "1", "1", ")">>,
      <<"a", ".", "\"", " ", "(", "2", "0", "1", "0">> }

CitedWorks ==
    {[w EXCEPT !.Citation = c] :
        w \in {Wa, Wb},
        c \in {Nil} \cup [Type : CitationTypes, Value : CitationValues]}

InitCitation ==
    /\ FetchIdle
    /\ MainIdle
    /\ ExploreIdle
    /\ pc = "start"
    /\ arg \in CitedWorks
    /\ ret = <<>>

Cite ==
    /\ pc = "start"
    /\ LET c == citationContributors(arg)
       IN  /\ ret' = c.contribs
           /\ pc' = IF c.panic THEN "panic" ELSE "done"
    /\ UNCHANGED <<arg, NotPure>>

NextCitation == Cite

SpecCitation == InitCitation /\ [][NextCitation]_vars

\* C15: citationContributors returns no contributors for a work that has
\* contributors, has no citation or has a citation of an unsupported kind,
\* and else none or exactly one; it never ends the run.
C15_AtMostOneNeverAborts ==
    /\ pc # "panic"
    /\ pc = "done" =>
          /\ Len(ret) <= 1
          /\ ~parsesCitation(arg) => ret = <<>>

(***************************************************************************)
(* SpecExplore: exploreUsers.  The titles of the category are looked up by *)
(* goroutines; sem, a channel of capacity 20, is sent to before each       *)
(* goroutine starts and received from when it returns.  The goroutines     *)
(* read nothing but their title, so the ones in flight are kept as a bag.  *)
(***************************************************************************)
\* var limit = 20
Limit == 20

\* the categories drawn: up to MaxShort pages with different titles, and
\* more than Limit pages, which all behave alike and are given one title
ShortCategories == UNION {[1..k -> 1..k] : k \in 0..MaxShort}
LongCategories == {[j \in 1..k |-> 1] : k \in (Limit + 1)..(Limit + MaxExtra)}

InitExplore ==
    /\ PureIdle
    /\ FetchIdle
    /\ MainIdle
    /\ epc = "start"
    /\ userTitles \in {q \in ShortCategories : \A a, b \in DOMAIN q : a < b => q[a] < q[b]}
                      \cup LongCategories
    /\ ei = 1 /\ sem = 0 /\ filled = 0
    /\ exploring = EmptyBag /\ discovered = <<>> /\ linked = EmptyBag

\* a goroutine at st with a title
Explorer(title, st) == [title |-> title, st |-> st]

\* GetCategoryMembers (or GetUsers) fails: exploreUsers returns the error
ExploreTitlesError ==
    /\ epc = "start"
    /\ epc' = "failed"
    /\ UNCHANGED <<userTitles, ei, sem, filled, exploring, discovered, linked, NotExplore>>

\* the titles are there: the loop over them begins
ExploreTitles ==
    /\ epc = "start"
    /\ epc' = "spawn"
    /\ UNCHANGED <<userTitles, ei, sem, filled, exploring, discovered, linked, NotExplore>>

\* one iteration of the loop that starts a goroutine without the send to sem
ExploreSpawnUnbounded ==
    /\ epc = "spawn" /\ ei <= Len(userTitles)
    /\ exploring' = exploring (+) SetToBag({Explorer(userTitles[ei], "links")})
    /\ ei' = ei + 1
    /\ UNCHANGED <<epc, userTitles, sem, filled, discovered, linked, NotExplore>>

\* one iteration of the loop over the titles: sem <- true, which blocks while
\* sem is full, then the goroutine is started
ExploreSpawn ==
    /\ epc = "spawn" /\ ei <= Len(userTitles)
    /\ sem < Limit
    /\ sem' = sem + 1
    /\ exploring' = exploring (+) SetToBag({Explorer(userTitles[ei], "links")})
    /\ ei' = ei + 1
    /\ UNCHANGED <<epc, userTitles, filled, discovered, linked, NotExplore>>

\* one iteration of the loop that fills sem: it blocks while sem is full
ExploreFill ==
    /\ epc = "spawn" /\ ei > Len(userTitles)
    /\ filled < Limit
    /\ sem < Limit
    /\ sem' = sem + 1
    /\ filled' = filled + 1
    /\ UNCHANGED <<epc, userTitles, ei, exploring, discovered, linked, NotExplore>>

\* exploreUsers that returns after its loop over the titles, without the
\* loop that fills sem
ExploreReturnWithoutFill ==
    /\ epc = "spawn" /\ ei > Len(userTitles)
    /\ epc' = "done"
    /\ UNCHANGED <<userTitles, ei, sem, filled, exploring, discovered, linked, NotExplore>>

\* sem is filled: errs and sem are closed, the loop over errs ends at once
\* as no goroutine is left to send, and the users are returned
ExploreReturn ==
    /\ epc = "spawn" /\ ei > Len(userTitles)
    /\ filled = Limit
    /\ epc' = "done"
    /\ UNCHANGED <<userTitles, ei, sem, filled, exploring, discovered, linked, NotExplore>>

\* a goroutine returns: the deferred function receives from sem
Returned(g) ==
    /\ exploring' = exploring (-) SetToBag({g})
    /\ sem' = sem - 1

\* GetExternalLinks fails: the goroutine sends to errs, which has no buffer
\* and no receiver while goroutines run, and stays there
GoLinksError ==
    /\ \E g \in BagToSet(exploring) :
          /\ g.st = "links"
          /\ exploring' = (exploring (-) SetToBag({g}))
                             (+) SetToBag({Explorer(g.title, "errs")})
    /\ UNCHANGED <<epc, userTitles, ei, sem, filled, discovered, linked, NotExplore>>

\* the page has no external links, or none with orcid.org: the goroutine
\* returns
GoNoOrcid ==
    /\ \E g \in BagToSet(exploring) :
          /\ g.st = "links"
          /\ Returned(g)
    /\ UNCHANGED <<epc, userTitles, ei, filled, discovered, linked, NotExplore>>

\* the page has a link with orcid.org and orcid.New makes a registry of it:
\* the goroutine goes on to the mutex
GoOrcid ==
    /\ \E g \in BagToSet(exploring) :
          /\ g.st = "links"
          /\ exploring' = (exploring (-) SetToBag({g}))
                             (+) SetToBag({Explorer(g.title, "append")})
          /\ linked' = linked (+) SetToBag({g.title})
    /\ UNCHANGED <<epc, userTitles, ei, sem, filled, discovered, NotExplore>>

\* orcid.New fails on the link: the goroutine sends to errs and stays there.
\* Such links are drawn for the pages of the short categories
GoOrcidError ==
    /\ Len(userTitles) <= MaxShort
    /\ \E g \in BagToSet(exploring) :
          /\ g.st = "links"
          /\ exploring' = (exploring (-) SetToBag({g}))
                             (+) SetToBag({Explorer(g.title, "errs: orcid.New")})
    /\ UNCHANGED <<epc, userTitles, ei, sem, filled, discovered, linked, NotExplore>>

\* under the mutex the user is appended to users, and the goroutine returns
GoAppend ==
    /\ \E g \in BagToSet(exploring) :
          /\ g.st = "append"
          /\ discovered' = Append(discovered, g.title)
          /\ Returned(g)
    /\ UNCHANGED <<epc, userTitles, ei, filled, linked, NotExplore>>

NextExplore ==
    \/ ExploreTitlesError
    \/ ExploreTitles
    \/ ExploreSpawn
    \/ ExploreFill
    \/ ExploreReturn
    \/ GoLinksError
    \/ GoNoOrcid
    \/ GoOrcid
    \/ GoOrcidError
    \/ GoAppend

SpecExplore == InitExplore /\ [][NextExplore]_vars

\* the scheduler runs a goroutine that can take a step: exploreUsers and its
\* goroutines do not stop while one of them is not blocked
SpecExploreFair == SpecExplore /\ WF_vars(NextExplore)

\* C16: in exploreUsers at most 20 discovery goroutines are in flight at the
\* same time, for any number of titles and any timing of the lookups.
C16_AtMostTwentyExplorers == BagCardinality(exploring) <= 20

\* more than 20 titles, 20 goroutines in flight, the next title waiting
C16_Witness ==
    /\ Len(userTitles) > 20
    /\ BagCardinality(exploring) = 20
    /\ ei = 21

(***************************************************************************)
(* SpecFetchWorks: FetchWorks of the library with the three modifiers, for *)
(* a registry whose works all download, in every order in which the detail *)
(* fetches can complete, and the grouping of what it returns.              *)
(***************************************************************************)
\* UpdateContributorsLine of the library (modifiers.go)
modUpdateContributorsLine(works) ==
    [i \in 1..Len(works) |-> [works[i] EXCEPT !.ContributorsLine = contributorsLine(works[i])]]

\* FetchWorks after fetchWorks has returned downloaded: the sort by year,
\* descending, and the modifiers in the order they were given
sortAndModify(downloaded) ==
    LET r == UpdateExternalIDsURL(sortWorksByYear(downloaded))
    IN  [fatal |-> r.fatal,
         works |-> IF r.fatal THEN r.works
                   ELSE UpdateMarkup(modUpdateContributorsLine(r.works))]

\* the registry's works: at most n works of two types and every year, with
\* different titles; a work's Path is its position in the summaries
ListedTypes == {"journal-article", "book"}
ListedWorks(n) ==
    UNION { { [i \in 1..k |-> NewWork(i, Unary(i), ty[i], yr[i])] :
                ty \in [1..k -> ListedTypes], yr \in [1..k -> 0..MaxYear] } :
            k \in 0..n }

\* the orders in which n detail fetches can complete
CompletionOrders(n) == {q \in Injections(n) : Len(q) = n}

InitFetchWorks ==
    /\ FetchIdle
    /\ MainIdle
    /\ ExploreIdle
    /\ pc = "start"
    /\ arg \in ListedWorks(MaxWorks)
    /\ ret = <<>>

\* fetchWorks fails on the summaries: FetchWorks returns the error
FetchWorksError ==
    /\ pc = "start"
    /\ ret' = [err |-> TRUE, works |-> <<>>, grouped |-> <<>>]
    /\ pc' = "failed"
    /\ UNCHANGED <<arg, NotPure>>

\* FetchWorks returns the works, which the caller groups
FetchWorksReturn ==
    /\ pc = "start"
    /\ \E q \in CompletionOrders(Len(filterUniqueTitles(arg))) :
          LET r == sortAndModify([k \in DOMAIN q |-> filterUniqueTitles(arg)[q[k]]])
          IN  /\ ret' = [err |-> FALSE, works |-> r.works,
                          grouped |-> groupByTypeAndYear(r.works)]
              /\ pc' = IF r.fatal THEN "fatal" ELSE "done"
    /\ UNCHANGED <<arg, NotPure>>

NextFetchWorks == FetchWorksError \/ FetchWorksReturn

SpecFetchWorks == InitFetchWorks /\ [][NextFetchWorks]_vars

\* C17: for fixed registry responses the works FetchWorks returns, and the
\* works of every bucket of the grouped output, are in one order whatever
\* the order in which the detail fetches complete: the order they have when
\* the fetches complete in the order of the summaries.
C17_OrderDetermined ==
    pc = "done" =>
        /\ ret.works = sortAndModify(filterUniqueTitles(arg)).works
        /\ ret.grouped = groupByTypeAndYear(sortAndModify(filterUniqueTitles(arg)).works)

\* C18: when the request for the summaries is answered with a status of 300
\* or more, or with a body that cannot be decoded, fetchWorks returns an
\* error, has started no detail fetch and returns no works.
C18_NoDetailAfterBadSummaries ==
    ferr \in {"http.Get bad response", "decodeWorks failed"} =>
        /\ fpc = "failed"
        /\ spawned = 0 /\ wg = 0 /\ inflight = EmptyBag
        /\ fetched = EmptyBag /\ worksCh = <<>> /\ result = <<>>

\* the registry has three works to list, and answers the request for the
\* summaries with a bad status
C18_Witness ==
    /\ fpc = "failed"
    /\ ferr = "http.Get bad response"
    /\ Len(raw) = 3

\* C19: a detail fetch answered with a status of 300 or more is a failure of
\* that item: the item is dropped, so that every work fetchWorks returns is a
\* detail document of the registry.
C19_BadStatusDetailDropped ==
    fpc = "done" =>
        \A k \in 1..Len(result) : \E j \in 1..Len(raw) : result[k] = raw[j]

\* C20: a step of fetchMissingAuthors leaves every work that has at least
\* one contributor as it is, and when the work the step is about has a
\* contributor nothing is asked of CrossRef or of the citation parsers
C20_WorksWithAuthorsUntouched ==
    [][(mpc = "authors" /\ wi <= Len(workPositions(users, 1)) /\ wi' = wi + 1) =>
          /\ Len(users') = Len(users)
          /\ \A u \in 1..Len(users) :
                /\ Len(users'[u].Works) = Len(users[u].Works)
                /\ \A k \in 1..Len(users[u].Works) :
                      Len(users[u].Works[k].Contributors) > 0 =>
                          users'[u].Works[k] = users[u].Works[k]
          /\ LET u == workPositions(users, 1)[wi][1]
                 k == workPositions(users, 1)[wi][2]
             IN  Len(users[u].Works[k].Contributors) > 0 => calls' = calls]_vars

\* fetchMissingAuthors has passed a work that came with two contributors and
\* has asked CrossRef about another work of the same user
C20_Witness ==
    /\ mpc = "authors" /\ wi = 3
    /\ Len(users) >= 1
    /\ users[1].Works[1] = registryUpdate(<<Wa>>)[1]
    /\ \E c \in 1..Len(calls) : calls[c] = Lookup(users[1].Title, users[1].Works[2])
    /\ \A c \in 1..Len(calls) : calls[c].path # users[1].Works[1].Path

\* the calls a step of main adds to the list of calls
newCalls == SubSeq(calls', Len(calls) + 1, Len(calls'))

\* C21: for a work without contributors, CrossRef is asked only if the work
\* has a DOI URL, the citation is parsed only if CrossRef was not asked or
\* gave no authors, the lookup comes before the parse, and the authors
\* CrossRef gave are the work's contributors after the step
C21_FallbackChainOrdered ==
    [][(mpc = "authors" /\ wi <= Len(workPositions(users, 1)) /\ wi' = wi + 1) =>
          LET u == workPositions(users, 1)[wi][1]
              k == workPositions(users, 1)[wi][2]
              w == users[u].Works[k]
              t == users[u].Title
              after == users'[u].Works[k].Contributors
              asked == \E c \in 1..Len(newCalls) : newCalls[c] = Lookup(t, w)
              parsed == \E c \in 1..Len(newCalls) : newCalls[c] = Parse(t, w)
          IN  Len(w.Contributors) = 0 =>
                  /\ asked => Len(w.DoiURI) > 0
                  /\ parsed => after # CrossRefAuthors
                  /\ parsed => after = citationContributors(w).contribs
                  /\ (asked /\ parsed) => newCalls = <<Lookup(t, w), Parse(t, w)>>
                  /\ after = CrossRefAuthors => newCalls = <<Lookup(t, w)>>
                  /\ Len(newCalls) <= 2]_vars

\* the book, with a DOI and a citation, was looked up without result and
\* has the author of its citation, and the conference
\* paper of the other user has the authors CrossRef gave
C21_Witness ==
    /\ mpc = "authors" /\ Len(users) = 2
    /\ \E c \in 1..(Len(calls) - 1) :
          /\ calls[c].call = "crossref.GetWork" /\ calls[c].path = 3
          /\ calls[c + 1].call = "parseCitationAuthors" /\ calls[c + 1].path = 3
          /\ calls[c].user = calls[c + 1].user
    /\ \E u \in 1..2 : \E k \in 1..Len(users[u].Works) :
          /\ users[u].Works[k].Path = 3
          /\ Len(users[u].Works[k].Contributors) = 1
    /\ \E u \in 1..2 : \E k \in 1..Len(users[u].Works) :
          /\ users[u].Works[k].Path = 2
          /\ users[u].Works[k].Contributors = CrossRefAuthors

\* how many of the calls in cs are the call c
RECURSIVE timesCalled(_, _)
timesCalled(cs, c) ==
    IF cs = <<>> THEN 0
    ELSE (IF Head(cs) = c THEN 1 ELSE 0) + timesCalled(Tail(cs), c)

\* C22: a step of fetchMissingAuthors asks CrossRef at most once and about
\* the work at hand only; after a lookup that gave no authors the loop goes
\* on with the next work; fetchMissingAuthors is left only after the last
\* work of the last user and never with an error; and CrossRef is asked
\* about a work of a user at most once in each of the two passes of main
C22_LookupErrorNotRetriedNotFatal ==
    [][/\ (mpc = "authors" /\ wi <= Len(workPositions(users, 1))) =>
            LET u == workPositions(users, 1)[wi][1]
                k == workPositions(users, 1)[wi][2]
                w == users[u].Works[k]
                t == users[u].Title
                after == users'[u].Works[k].Contributors
            IN  /\ wi' = wi + 1
                /\ \A c \in 1..Len(newCalls) :
                      newCalls[c].call = "crossref.GetWork" => newCalls[c] = Lookup(t, w)
                /\ timesCalled(newCalls, Lookup(t, w)) <= 1
                /\ (timesCalled(newCalls, Lookup(t, w)) = 1 /\ after # CrossRefAuthors
                       /\ ~citationContributors(w).panic) => mpc' = "authors"
                /\ mpc' \in {"authors", "panic"}
       /\ (mpc = "authors" /\ wi > Len(workPositions(users, 1))) =>
            mpc' \in {"dump", "lines"}
       /\ \A c \in 1..Len(calls') :
            calls'[c].call = "crossref.GetWork" =>
                timesCalled(calls', calls'[c]) <= (IF phase' = "users" THEN 1 ELSE 2)]_vars

\* CrossRef was asked about the book and gave no authors, and the pass has
\* gone on to the end of the users' works and to the saving of the files
C22_Witness ==
    /\ mpc = "dump" /\ Len(users) = 2
    /\ users[1].Works # <<>> /\ users[1].Works[1].Path = 3
    /\ calls[Len(calls)].call = "crossref.GetWork"
    /\ calls[Len(calls)].user = users[2].Title
    /\ \E c \in 1..Len(calls) : calls[c] = Lookup(users[1].Title, users[1].Works[1])
    /\ users[1].Works[1].Contributors # CrossRefAuthors
    /\ Len(users[2].Works) = 2 /\ users[2].Works[2].Contributors = CrossRefAuthors

\* the work types a category of the page stands for
typeInCategory(ty, k) ==
    CASE k = "Journal Articles" -> ty = "journal-article"
      [] k = "Conference Papers" -> ty = "conference-paper"
      [] k = "Other" -> ty \notin {"journal-article", "conference-paper"}

\* the distinct years of the works of category k in works
yearsIn(works, k) ==
    {works[i].Year : i \in {j \in 1..Len(works) : typeInCategory(works[j].Type, k)}}

\* C23: a category has one bucket for each distinct year of its works, and
\* its i-th bucket is the list of the input's works of that category whose
\* year is the i-th largest of those years, in the order of the input
C23_BucketIsYearRank ==
    pc = "done" =>
        \A k \in Categories :
            /\ Len(ret[k]) = Cardinality(yearsIn(arg, k))
            /\ \A b \in 1..Len(ret[k]) :
                  \E y \in yearsIn(arg, k) :
                      /\ Cardinality({z \in yearsIn(arg, k) : z > y}) = b - 1
                      /\ ret[k][b] =
                            SubseqAt(arg, {i \in 1..Len(arg) :
                                             /\ typeInCategory(arg[i].Type, k)
                                             /\ arg[i].Year = y})

\* three books of the years 1, 2, 1: the bucket of 2 is first, the bucket of
\* 1 holds the first and the third in that order
C23_Witness ==
    /\ pc = "done"
    /\ Len(arg) = 3
    /\ \A i \in 1..3 : arg[i].Type = "book"
    /\ arg[1].Year = 1 /\ arg[2].Year = 2 /\ arg[3].Year = 1
    /\ ret["Other"] = << <<arg[2]>>, <<arg[1], arg[3]>> >>

\* C24: the result has the three categories as its keys and no other; a work
\* is in a bucket of Journal Articles iff its type is journal-article, of
\* Conference Papers iff its type is conference-paper, of Other iff its type
\* is another one; a category without works has no buckets
C24_ThreeFixedCategories ==
    pc = "done" =>
        /\ DOMAIN ret = {"Journal Articles", "Conference Papers", "Other"}
        /\ \A k \in DOMAIN ret :
              /\ \A i \in 1..Len(arg) :
                    (\E b \in 1..Len(ret[k]) : \E p \in 1..Len(ret[k][b]) :
                        ret[k][b][p] = arg[i])
                    <=> typeInCategory(arg[i].Type, k)
              /\ (\A i \in 1..Len(arg) : ~typeInCategory(arg[i].Type, k)) => ret[k] = <<>>

\* two conference papers and nothing else were grouped: the two other
\* categories are keys with no buckets
C24_Witness ==
    /\ pc = "done"
    /\ Len(arg) = 2
    /\ \A i \in 1..2 : arg[i].Type = "conference-paper"
    /\ DOMAIN ret = Categories
    /\ ret["Journal Articles"] = <<>> /\ ret["Other"] = <<>>
    /\ ret["Conference Papers"] # <<>>

\* how many of the elements of the sequence q are x
RECURSIVE timesIn(_, _)
timesIn(q, x) ==
    IF q = <<>> THEN 0
    ELSE (IF Head(q) = x THEN 1 ELSE 0) + timesIn(Tail(q), x)

\* C25: when exploreUsers has returned its users no goroutine is left, and
\* users holds a title as many times as a goroutine found a link with
\* orcid.org on the page of that title: once for each such title of the
\* category and not at all for any other title; at no time does users hold
\* a title more often than that
C25_OneUserPerLinkedTitle ==
    /\ \A t \in 1..(MaxShort + 1) :
          /\ timesIn(discovered, t) <= CopiesIn(t, linked)
          /\ CopiesIn(t, linked) <= timesIn(userTitles, t)
    /\ epc = "done" =>
          /\ exploring = EmptyBag
          /\ \A t \in 1..(MaxShort + 1) : timesIn(discovered, t) = CopiesIn(t, linked)
          /\ \A k \in 1..Len(discovered) : CopiesIn(discovered[k], linked) > 0

\* three pages, the first and the third with a link to orcid.org: the users
\* are returned in the order in which the goroutines appended them
C25_Witness ==
    /\ epc = "done"
    /\ Len(userTitles) = 3
    /\ discovered = <<3, 1>>
    /\ linked = SetToBag({1, 3})

\* C26: whenever orcid.New has failed on the link of a page, exploreUsers
\* afterwards returns the users of all the pages with a link that orcid.New
\* accepted
C26_OtherUsersReturned ==
    (\E g \in BagToSet(exploring) : g.st = "errs: orcid.New")
        ~> (/\ epc = "done"
            /\ \A t \in 1..(MaxShort + 1) : timesIn(discovered, t) = CopiesIn(t, linked))

\* C27: exploreUsers returns, with its users or with an error
C27_ExploreReturns == <>(epc \in {"done", "failed"})

\* C28: a goroutine that has its work to send finds the channel open and not
\* full; the channel is closed only when all the summaries have been ranged
\* over and no goroutine is left; once closed the channel is not sent to;
\* and fetchWorks, once it has the summaries, returns
C28_FetchWorksTerminates ==
    /\ [](\A g \in BagToSet(inflight) :
             g.st \in {"send", "send error document"} =>
                 ~closed /\ Len(worksCh) < Len(summaries))
    /\ [](closed => inflight = EmptyBag /\ wg = 0 /\ spawned = Len(summaries))
    /\ [](fpc = "panic" => spawned = 0)
    /\ [][closed => (worksCh' = worksCh \/ worksCh' = <<>>)]_vars
    /\ (fpc \in {"spawn", "wait", "close", "drain"}) ~> (fpc = "done")

\* more than 20 summaries, every detail fetch has sent its work, the channel
\* is filled to its capacity and closed
C28_Witness ==
    /\ Len(summaries) > 20
    /\ closed /\ fpc = "drain"
    /\ Len(worksCh) = Len(summaries)

\* C29: after UpdateExternalIDsURL every external ID whose type is not doi,
\* the ones of type eid included, has the URL it had before, and no other
\* field of an external ID has changed
C29_OnlyDoiURLsChange ==
    pc = "done" =>
        \A i \in 1..Len(arg) :
            /\ Len(ret[i].ExternalIDs) = Len(arg[i].ExternalIDs)
            /\ \A ii \in 1..Len(arg[i].ExternalIDs) :
                  /\ ret[i].ExternalIDs[ii].Type = arg[i].ExternalIDs[ii].Type
                  /\ ret[i].ExternalIDs[ii].Value = arg[i].ExternalIDs[ii].Value
                  /\ arg[i].ExternalIDs[ii].Type # "doi" =>
                        ret[i].ExternalIDs[ii].URL = arg[i].ExternalIDs[ii].URL

\* C30: fetchWorkSummaries ends each of its failures by returning an error:
\* the process does not panic, a failed call has a non-nil error and no
\* summaries, and a call that goes on to the detail fetches has had none of
\* the failures
C30_FailuresAreErrors ==
    /\ fpc # "panic"
    /\ fpc = "failed" =>
          /\ ferr \in {"http.Get failed", "http.Get bad response", "decodeWorks failed"}
          /\ summaries = <<>>
    /\ fpc \notin {"start", "failed"} => ferr = "nil"

=========================================================================
